---- MODULE Spec2Model ----
(***************************************************************************)
(* Model of server/src/db.rs of faccina: the archive writer                *)
(* (upsert_archive, copy_archive, upsert_relations), the relation          *)
(* synchronizers (upsert_taxonomy, upsert_tags, upsert_sources,            *)
(* upsert_images) and fetch_archive_data, over a relational store.         *)
(*                                                                         *)
(* The store is a record of tables.  A call runs its SQL statements one    *)
(* after the other on a private copy of the store (the transaction); the   *)
(* copy replaces the store at commit and is dropped when a statement       *)
(* fails.  Option<T> is a sequence of length 0 (None) or 1 (Some).         *)
(***************************************************************************)
EXTENDS Integers, Sequences, FiniteSets, TLC

(* ------------------------------ bounds --------------------------------- *)
\* longest relation list (Vec) an input carries
MaxInput == 2
\* most archive rows the store holds
MaxArchives == 3
\* most words a free text of plain words holds
MaxWords == 4
\* most rows of which every order of return is taken
MaxPermuted == 3
\* most writes that commit while one search runs
MaxWrites == 2
\* the last page a search asks for
MaxPage == 4

(* ------------------------------ Option --------------------------------- *)
None == << >>
Some(v) == << v >>
is_some(o) == Len(o) = 1
is_none(o) == Len(o) = 0
unwrap(o) == o[1]
\* Rust's == on Option<T>, and SQL's IS NOT DISTINCT FROM
opt_eq(a, b) == IF is_some(a) /\ is_some(b) THEN unwrap(a) = unwrap(b)
                ELSE is_none(a) /\ is_none(b)
\* SQL's col = $n : NULL on either side is not true
sql_eq(a, b) == is_some(a) /\ is_some(b) /\ unwrap(a) = unwrap(b)

(* --------------------------- sequence helpers -------------------------- *)
Range(s) == {s[i] : i \in 1..Len(s)}

RECURSIVE SetToSeq(_)
SetToSeq(S) == IF S = {} THEN << >>
               ELSE LET x == CHOOSE y \in S : TRUE IN << x >> \o SetToSeq(S \ {x})

\* the numbers of S in ascending order
SetToSorted(S) ==
  [i \in 1..Cardinality(S) |-> CHOOSE x \in S : Cardinality({y \in S : y < x}) = i - 1]

\* all sequences over S of length 0..n
RECURSIVE SeqsUpTo(_, _)
SeqsUpTo(S, n) == IF n = 0 THEN {<< >>}
                  ELSE LET shorter == SeqsUpTo(S, n - 1)
                       IN shorter \cup {Append(s, x) : s \in shorter, x \in S}

(* ------------------------------ TagType -------------------------------- *)
TagTypes == {"Artist", "Circle", "Magazine", "Event", "Publisher", "Parody", "Tag"}
FacetTypes == TagTypes \ {"Tag"}

TagType_table(t) ==
  CASE t = "Artist" -> "artists"
    [] t = "Circle" -> "circles"
    [] t = "Magazine" -> "magazines"
    [] t = "Event" -> "events"
    [] t = "Publisher" -> "publishers"
    [] t = "Parody" -> "parodies"
    [] t = "Tag" -> "tags"

TagType_relation(t) ==
  CASE t = "Artist" -> "archive_artists"
    [] t = "Circle" -> "archive_circles"
    [] t = "Magazine" -> "archive_magazines"
    [] t = "Event" -> "archive_events"
    [] t = "Publisher" -> "archive_publishers"
    [] t = "Parody" -> "archive_parodies"
    [] t = "Tag" -> "archive_tags"

TermTables == {TagType_table(t) : t \in TagTypes}
FacetRelations == {TagType_relation(t) : t \in FacetTypes}

(* ------------------------- external collaborators ---------------------- *)
\* term and tag names the inputs use; "A" and "a" share a slug
Names == {"A", "a", "B", "C"}
Namespaces == {"male", "female"}

\* slug::slugify lowercases (and hyphenates, which these names do not need)
slugify(name) ==
  CASE name = "A" -> "a"
    [] name = "a" -> "a"
    [] name = "B" -> "b"
    [] name = "C" -> "c"
    [] name = "T" -> "t"
    [] name = "U" -> "u"
    [] OTHER -> name

\* utils::tag_alias rewrites the display name of an aliased slug only
tag_alias(name, slug) == IF slug = "b" THEN "Bee" ELSE name

(* ------------------------------- store --------------------------------- *)
EmptyDb ==
  [ archives |-> << >>,
    terms |-> [t \in TermTables |-> {}],
    rels |-> [r \in FacetRelations |-> {}],
    archive_tags |-> {},
    archive_sources |-> {},
    archive_images |-> {} ]

\* a log entry of one row written by a statement
Entry(op, table, archive_id, id, s) ==
  [op |-> op, table |-> table, archive_id |-> archive_id, id |-> id, s |-> s]

(* ---------------------------- transaction ------------------------------ *)
\* pool.begin(): the transaction works on a copy; fail = the statement that
\* fails (0: none), n = statements run so far
begin(db, fail) == [db |-> db, n |-> 0, fail |-> fail, err |-> FALSE, log |-> << >>]

\* one statement followed by `.await?`: an error stops the call
execute(tx, newdb, entries) ==
  IF tx.err THEN tx
  ELSE IF tx.n + 1 = tx.fail THEN [tx EXCEPT !.n = @ + 1, !.err = TRUE]
  ELSE [tx EXCEPT !.db = newdb, !.n = @ + 1, !.log = @ \o entries]

\* a SELECT: reads, writes nothing
fetch(tx) == execute(tx, tx.db, << >>)

\* a statement the store rejects (constraint violation)
reject(tx) == IF tx.err THEN tx ELSE [tx EXCEPT !.n = @ + 1, !.err = TRUE]

(* --------------------------- upsert_taxonomy --------------------------- *)
\* archive_tags: the input names with their slugs
taxonomy_of(tags) == [i \in 1..Len(tags) |-> [slug |-> slugify(tags[i]), name |-> tags[i]]]

\* the slugs bound to slug = ANY($1)
slugs_of(archive_tags) == {archive_tags[i].slug : i \in 1..Len(archive_tags)}

\* itertools unique_by: keeps the first element of each slug
RECURSIVE unique_by_slug(_)
unique_by_slug(s) ==
  IF s = << >> THEN << >>
  ELSE IF \E i \in 1..Len(s) - 1 : s[i].slug = s[Len(s)].slug
  THEN unique_by_slug(SubSeq(s, 1, Len(s) - 1))
  ELSE Append(unique_by_slug(SubSeq(s, 1, Len(s) - 1)), s[Len(s)])

\* SELECT id, slug FROM {table} WHERE slug = ANY($1)
terms_with_slugs(db, table, archive_tags) ==
  {r \in db.terms[table] : r.slug \in slugs_of(archive_tags)}

\* the input entries whose slug no selected term has, one per slug
tags_to_insert(archive_tags, found) ==
  unique_by_slug(SelectSeq(archive_tags, LAMBDA tag : \A row \in found : row.slug /= tag.slug))

\* INSERT INTO {table} (name, slug) SELECT * FROM UNNEST(..) RETURNING id, slug
insert_terms(tx, table, rows) ==
  execute(tx,
    [tx.db EXCEPT !.terms[table] =
       @ \cup {[id |-> Cardinality(tx.db.terms[table]) + i, slug |-> rows[i].slug,
                name |-> rows[i].name] : i \in 1..Len(rows)}],
    [i \in 1..Len(rows) |->
       Entry("INSERT", table, 0, Cardinality(tx.db.terms[table]) + i, rows[i].slug)])

\* tx1: the transaction after the SELECT of the terms; the INSERT runs only
\* when a term is missing
upsert_terms(archive_tags, table, tx1) ==
  IF tx1.err THEN tx1
  ELSE IF tags_to_insert(archive_tags, terms_with_slugs(tx1.db, table, archive_tags)) = << >>
  THEN tx1
  ELSE insert_terms(tx1, table,
                    tags_to_insert(archive_tags, terms_with_slugs(tx1.db, table, archive_tags)))

\* SELECT {id} AS taxonomy_id, slug FROM {relation} INNER JOIN {table} .. WHERE archive_id = $1
archive_tags_relation(db, type, archive_id) ==
  {[taxonomy_id |-> r.term_id,
    slug |-> (CHOOSE t \in db.terms[TagType_table(type)] : t.id = r.term_id).slug] :
      r \in {x \in db.rels[TagType_relation(type)] : x.archive_id = archive_id}}

\* the current rows whose slug the input does not name
relations_to_delete(archive_tags, relation) ==
  {r \in relation : r.slug \notin slugs_of(archive_tags)}

\* the input entries whose slug no current row has (not made unique)
relations_to_insert(archive_tags, relation) ==
  SelectSeq(archive_tags, LAMBDA tag : \A r \in relation : r.slug /= tag.slug)

\* the ids of the terms (selected or just inserted) of the entries to insert
tag_ids(db, table, entries) ==
  [i \in 1..Len(entries) |-> (CHOOSE t \in db.terms[table] : t.slug = entries[i].slug).id]

\* a synchronizer that also drops the term of every relation row it deletes
delete_relations_and_terms(tx, relation_name, archive_id, ids) ==
  IF tx.err \/ ids = << >> THEN tx
  ELSE execute(tx,
         [tx.db EXCEPT
            !.rels[relation_name] =
              {r \in @ : ~ (r.archive_id = archive_id /\ r.term_id \in Range(ids))},
            !.terms = [t \in TermTables |-> {row \in @[t] : row.id \notin Range(ids)}]],
         [i \in 1..Len(ids) |-> Entry("DELETE", relation_name, archive_id, ids[i], "")])

\* DELETE FROM {relation} WHERE archive_id = $1 AND {id} = $2, once per row
RECURSIVE delete_relations(_, _, _, _)
delete_relations(tx, relation_name, archive_id, ids) ==
  IF tx.err \/ ids = << >> THEN tx
  ELSE delete_relations(
         execute(tx,
           [tx.db EXCEPT !.rels[relation_name] =
              @ \ {[archive_id |-> archive_id, term_id |-> Head(ids)]}],
           << Entry("DELETE", relation_name, archive_id, Head(ids), "") >>),
         relation_name, archive_id, Tail(ids))

\* the junction tables are key-only: (archive_id, term_id) is the primary key
relation_key_conflict(existing, archive_id, ids) ==
  \/ \E i, j \in 1..Len(ids) : i /= j /\ ids[i] = ids[j]
  \/ \E i \in 1..Len(ids) : [archive_id |-> archive_id, term_id |-> ids[i]] \in existing

\* INSERT INTO {relation} (archive_id, {id}) SELECT * FROM UNNEST($1, $2)
insert_relations(tx, relation_name, archive_id, ids) ==
  IF tx.err THEN tx
  ELSE IF relation_key_conflict(tx.db.rels[relation_name], archive_id, ids)
  THEN reject(tx)
  ELSE execute(tx,
         [tx.db EXCEPT !.rels[relation_name] =
            @ \cup {[archive_id |-> archive_id, term_id |-> ids[i]] : i \in 1..Len(ids)}],
         [i \in 1..Len(ids) |-> Entry("INSERT", relation_name, archive_id, ids[i], "")])

\* tx3: the transaction after the SELECT of the archive's relation rows; the
\* delete set and the insert set are both computed from the rows it read
sync_taxonomy_relations(archive_tags, type, archive_id, tx3) ==
  IF tx3.err THEN tx3
  ELSE insert_relations(
         delete_relations(tx3, TagType_relation(type), archive_id,
           SetToSeq({r.taxonomy_id :
                       r \in relations_to_delete(archive_tags,
                               archive_tags_relation(tx3.db, type, archive_id))})),
         TagType_relation(type), archive_id,
         tag_ids(tx3.db, TagType_table(type),
                 relations_to_insert(archive_tags,
                                     archive_tags_relation(tx3.db, type, archive_id))))

upsert_taxonomy(tags, type, archive_id, tx0) ==
  sync_taxonomy_relations(taxonomy_of(tags), type, archive_id,
    fetch(upsert_terms(taxonomy_of(tags), TagType_table(type), fetch(tx0))))

(* ----------------------------- upsert_tags ----------------------------- *)
\* archive_tags: the input pairs <<name, namespace>> with slug and aliased name
tags_of(tags) ==
  [i \in 1..Len(tags) |->
     [slug |-> slugify(tags[i][1]), name |-> tag_alias(tags[i][1], slugify(tags[i][1])),
      namespace |-> tags[i][2]]]

\* SELECT tag_id, slug, namespace FROM archive_tags INNER JOIN tags .. WHERE archive_id = $1
archive_tags_rows(db, archive_id) ==
  {[tag_id |-> r.tag_id, slug |-> (CHOOSE t \in db.terms["tags"] : t.id = r.tag_id).slug,
    namespace |-> r.namespace] : r \in {x \in db.archive_tags : x.archive_id = archive_id}}

\* the current rows whose (slug, namespace) the input does not name
tag_relations_to_delete(archive_tags, relation) ==
  {r \in relation :
     ~ \E i \in 1..Len(archive_tags) :
         archive_tags[i].slug = r.slug /\ archive_tags[i].namespace = r.namespace}

\* the input entries whose (slug, namespace) no current row has
tag_relations_to_insert(archive_tags, relation) ==
  SelectSeq(archive_tags,
            LAMBDA tag : ~ \E r \in relation : r.slug = tag.slug /\ r.namespace = tag.namespace)

\* DELETE FROM archive_tags WHERE archive_id = $1 AND tag_id = $2 AND namespace = $3
RECURSIVE delete_tag_relations(_, _, _)
delete_tag_relations(tx, archive_id, rows) ==
  IF tx.err \/ rows = << >> THEN tx
  ELSE delete_tag_relations(
         execute(tx,
           [tx.db EXCEPT !.archive_tags =
              @ \ {[archive_id |-> archive_id, tag_id |-> Head(rows).tag_id,
                    namespace |-> Head(rows).namespace]}],
           << Entry("DELETE", "archive_tags", archive_id, Head(rows).tag_id,
                    Head(rows).namespace) >>),
         archive_id, Tail(rows))

\* archive_tags is key-only: (archive_id, tag_id, namespace) is the primary key
tag_key_conflict(existing, archive_id, ids, entries) ==
  \/ \E i, j \in 1..Len(ids) :
       i /= j /\ ids[i] = ids[j] /\ entries[i].namespace = entries[j].namespace
  \/ \E i \in 1..Len(ids) :
       [archive_id |-> archive_id, tag_id |-> ids[i], namespace |-> entries[i].namespace]
         \in existing

\* INSERT INTO archive_tags (archive_id, tag_id, namespace) SELECT * FROM UNNEST($1, $2, $3)
insert_tag_relations(tx, archive_id, ids, entries) ==
  IF tx.err THEN tx
  ELSE IF tag_key_conflict(tx.db.archive_tags, archive_id, ids, entries)
  THEN reject(tx)
  ELSE execute(tx,
         [tx.db EXCEPT !.archive_tags =
            @ \cup {[archive_id |-> archive_id, tag_id |-> ids[i],
                     namespace |-> entries[i].namespace] : i \in 1..Len(ids)}],
         [i \in 1..Len(ids) |->
            Entry("INSERT", "archive_tags", archive_id, ids[i], entries[i].namespace)])

\* tx3: the transaction after the SELECT of the archive's tag rows
sync_tag_relations(archive_tags, archive_id, tx3) ==
  IF tx3.err THEN tx3
  ELSE insert_tag_relations(
         delete_tag_relations(tx3, archive_id,
           SetToSeq(tag_relations_to_delete(archive_tags, archive_tags_rows(tx3.db, archive_id)))),
         archive_id,
         tag_ids(tx3.db, "tags",
                 tag_relations_to_insert(archive_tags, archive_tags_rows(tx3.db, archive_id))),
         tag_relations_to_insert(archive_tags, archive_tags_rows(tx3.db, archive_id)))

upsert_tags(tags, archive_id, tx0) ==
  sync_tag_relations(tags_of(tags), archive_id,
    fetch(upsert_terms(tags_of(tags), "tags", fetch(tx0))))

(* ---------------------------- upsert_sources --------------------------- *)
\* SELECT name, url FROM archive_sources WHERE archive_id = $1
existing_sources(db, archive_id) ==
  {[name |-> x.name, url |-> x.url] : x \in {y \in db.archive_sources : y.archive_id = archive_id}}

\* the existing rows whose (name, url) the input does not hold
source_relations_to_delete(sources, existing) ==
  {r \in existing :
     ~ \E i \in 1..Len(sources) : sources[i].name = r.name /\ opt_eq(sources[i].url, r.url)}

\* the input rows whose (name, url) no existing row holds
source_relations_to_insert(sources, existing) ==
  SelectSeq(sources,
            LAMBDA source : ~ \E r \in existing : r.name = source.name /\ opt_eq(r.url, source.url))

\* DELETE FROM archive_sources WHERE archive_id = $1 AND name = $2 AND url = $3
RECURSIVE delete_sources(_, _, _)
delete_sources(tx, archive_id, rows) ==
  IF tx.err \/ rows = << >> THEN tx
  ELSE delete_sources(
         execute(tx,
           [tx.db EXCEPT !.archive_sources =
              {x \in @ : ~ (x.archive_id = archive_id /\ x.name = Head(rows).name
                            /\ sql_eq(x.url, Head(rows).url))}],
           IF \E x \in tx.db.archive_sources :
                x.archive_id = archive_id /\ x.name = Head(rows).name
                /\ sql_eq(x.url, Head(rows).url)
           THEN << Entry("DELETE", "archive_sources", archive_id, 0, Head(rows).name) >>
           ELSE << >>),
         archive_id, Tail(rows))

\* INSERT INTO archive_sources .. ON CONFLICT (archive_id, name) DO UPDATE SET url = EXCLUDED.url
RECURSIVE insert_sources(_, _, _)
insert_sources(tx, archive_id, rows) ==
  IF tx.err \/ rows = << >> THEN tx
  ELSE insert_sources(
         execute(tx,
           [tx.db EXCEPT !.archive_sources =
              {x \in @ : ~ (x.archive_id = archive_id /\ x.name = Head(rows).name)}
              \cup {[archive_id |-> archive_id, name |-> Head(rows).name,
                     url |-> Head(rows).url]}],
           << Entry(IF \E x \in tx.db.archive_sources :
                         x.archive_id = archive_id /\ x.name = Head(rows).name
                    THEN "UPDATE" ELSE "INSERT",
                    "archive_sources", archive_id, 0, Head(rows).name) >>),
         archive_id, Tail(rows))

\* tx1: the transaction after the SELECT of the archive's sources
sync_sources(sources, archive_id, merge, tx1) ==
  IF tx1.err THEN tx1
  ELSE insert_sources(
         IF merge THEN tx1
         ELSE delete_sources(tx1, archive_id,
                SetToSeq(source_relations_to_delete(sources,
                                                    existing_sources(tx1.db, archive_id)))),
         archive_id,
         source_relations_to_insert(sources, existing_sources(tx1.db, archive_id)))

upsert_sources(sources, archive_id, merge, tx0) ==
  sync_sources(sources, archive_id, merge, fetch(tx0))

(* ---------------------------- upsert_images ---------------------------- *)
\* the page numbers of the existing rows that no input image has
image_relations_to_delete(images, db, archive_id) ==
  {x.page_number :
     x \in {y \in db.archive_images :
              /\ y.archive_id = archive_id
              /\ ~ \E i \in 1..Len(images) : images[i].page_number = y.page_number}}

\* DELETE FROM archive_images WHERE archive_id = $1 AND page_number = $2
RECURSIVE delete_images(_, _, _)
delete_images(tx, archive_id, pages) ==
  IF tx.err \/ pages = << >> THEN tx
  ELSE delete_images(
         execute(tx,
           [tx.db EXCEPT !.archive_images =
              {x \in @ : ~ (x.archive_id = archive_id /\ x.page_number = Head(pages))}],
           << Entry("DELETE", "archive_images", archive_id, Head(pages), "") >>),
         archive_id, Tail(pages))

\* an insert that leaves a row of the page as it is (DO NOTHING)
RECURSIVE insert_images_keeps_rows(_, _, _)
insert_images_keeps_rows(tx, archive_id, images) ==
  IF tx.err \/ images = << >> THEN tx
  ELSE insert_images_keeps_rows(
         IF \E x \in tx.db.archive_images :
              x.archive_id = archive_id /\ x.page_number = Head(images).page_number
         THEN execute(tx, tx.db, << >>)
         ELSE execute(tx,
                [tx.db EXCEPT !.archive_images =
                   @ \cup {[archive_id |-> archive_id, filename |-> Head(images).filename,
                            page_number |-> Head(images).page_number,
                            width |-> Head(images).width, height |-> Head(images).height]}],
                << Entry("INSERT", "archive_images", archive_id, Head(images).page_number, "") >>),
         archive_id, Tail(images))

\* INSERT INTO archive_images .. ON CONFLICT (archive_id, page_number) DO UPDATE SET ..
RECURSIVE insert_images(_, _, _)
insert_images(tx, archive_id, images) ==
  IF tx.err \/ images = << >> THEN tx
  ELSE insert_images(
         execute(tx,
           [tx.db EXCEPT !.archive_images =
              {x \in @ : ~ (x.archive_id = archive_id
                            /\ x.page_number = Head(images).page_number)}
              \cup {[archive_id |-> archive_id, filename |-> Head(images).filename,
                     page_number |-> Head(images).page_number,
                     width |-> Head(images).width, height |-> Head(images).height]}],
           << Entry(IF \E x \in tx.db.archive_images :
                         x.archive_id = archive_id /\ x.page_number = Head(images).page_number
                    THEN "UPDATE" ELSE "INSERT",
                    "archive_images", archive_id, Head(images).page_number, "") >>),
         archive_id, Tail(images))

\* tx1: the transaction after the SELECT of the archive's images
sync_images(images, archive_id, tx1) ==
  IF tx1.err THEN tx1
  ELSE insert_images(
         delete_images(tx1, archive_id,
                       SetToSeq(image_relations_to_delete(images, tx1.db, archive_id))),
         archive_id, images)

upsert_images(images, archive_id, tx0) == sync_images(images, archive_id, fetch(tx0))

(* --------------------------- upsert_relations -------------------------- *)
\* if let Some(list) = data.<facet> { upsert_taxonomy(list, type, ..).await? }
sync_facet(list, type, archive_id, tx) ==
  IF tx.err \/ is_none(list) THEN tx ELSE upsert_taxonomy(unwrap(list), type, archive_id, tx)

\* the six facets, in the order of the code
sync_facets(data, archive_id, tx0) ==
  sync_facet(data.parodies, "Parody", archive_id,
    sync_facet(data.publishers, "Publisher", archive_id,
      sync_facet(data.events, "Event", archive_id,
        sync_facet(data.magazines, "Magazine", archive_id,
          sync_facet(data.circles, "Circle", archive_id,
            sync_facet(data.artists, "Artist", archive_id, tx0))))))

\* if let Some(tags) = data.tags { upsert_tags(..).await? }
sync_tags(list, archive_id, tx) ==
  IF tx.err \/ is_none(list) THEN tx ELSE upsert_tags(unwrap(list), archive_id, tx)

\* if let Some(sources) = data.sources { upsert_sources(sources, archive_id, true, ..).await? }
sync_source_list(list, archive_id, tx) ==
  IF tx.err \/ is_none(list) THEN tx ELSE upsert_sources(unwrap(list), archive_id, TRUE, tx)

\* if let Some(images) = data.images { upsert_images(..).await? }
sync_image_list(list, archive_id, tx) ==
  IF tx.err \/ is_none(list) THEN tx ELSE upsert_images(unwrap(list), archive_id, tx)

\* a synchronization that takes an absent list for an empty one
upsert_relations_absent_as_empty(data, archive_id, tx0) ==
  sync_image_list(Some(IF is_some(data.images) THEN unwrap(data.images) ELSE << >>), archive_id,
    sync_source_list(data.sources, archive_id,
      sync_tags(Some(IF is_some(data.tags) THEN unwrap(data.tags) ELSE << >>), archive_id,
        sync_facets([k \in DOMAIN data |->
                       IF k \in {"artists", "circles"} /\ is_none(data[k]) THEN Some(<< >>)
                       ELSE data[k]],
                    archive_id, tx0))))

\* data: a record of Option<Vec<..>>, one field per relation kind
upsert_relations(data, archive_id, tx0) ==
  sync_image_list(data.images, archive_id,
    sync_source_list(data.sources, archive_id,
      sync_tags(data.tags, archive_id, sync_facets(data, archive_id, tx0))))

(* ------------------------------ archives ------------------------------- *)
\* the live rows the identity lookup of upsert_archive matches:
\* WHERE (id = $1 OR path = $2 OR hash = $3) AND deleted_at IS NULL
lookup(db, data) ==
  {i \in 1..Len(db.archives) :
     /\ is_none(db.archives[i].deleted_at)
     /\ \/ sql_eq(Some(i), data.id)
        \/ sql_eq(Some(db.archives[i].path), data.path)
        \/ sql_eq(Some(db.archives[i].hash), data.hash)}

\* the rows copy_archive's SELECT .. WHERE hash = $1 matches (deleted rows too)
rows_with_hash(db, hash) == {i \in 1..Len(db.archives) : db.archives[i].hash = hash}

\* INSERT INTO archives (..) VALUES (..) RETURNING id; deleted_at defaults to
\* NULL; the id returned is that of the last row
insert_archive(tx, row) ==
  execute(tx,
    [tx.db EXCEPT !.archives = Append(@, [row EXCEPT !.id = Len(tx.db.archives) + 1])],
    << Entry("INSERT", "archives", Len(tx.db.archives) + 1, Len(tx.db.archives) + 1, row.hash) >>)

\* tx1: the transaction after the SELECT; rec: the row it returned
copy_row(rec, new_hash, tx1) ==
  IF tx1.err THEN tx1
  ELSE insert_archive(tx1,
         [ id |-> 0, slug |-> rec.slug, title |-> rec.title,
           description |-> rec.description, path |-> rec.path, hash |-> new_hash,
           pages |-> rec.pages, size |-> rec.size, thumbnail |-> rec.thumbnail,
           language |-> rec.language, released_at |-> rec.released_at,
           deleted_at |-> None, has_metadata |-> rec.has_metadata ])

\* src: the row fetch_one returns for SELECT .. FROM archives WHERE hash = old_hash
copy_archive(old_hash, new_hash, src, tx0) == copy_row(tx0.db.archives[src], new_hash, fetch(tx0))

\* UPDATE archives SET deleted_at = NOW() WHERE id = $1
soft_delete(tx, id) ==
  execute(tx, [tx.db EXCEPT !.archives[id].deleted_at = Some("now")],
          << Entry("UPDATE", "archives", id, id, "") >>)

\* an UPDATE that leaves description and language alone when they are absent
updated_row_keeps_absent(old, data) ==
  [ old EXCEPT
      !.title = IF is_some(data.title) THEN unwrap(data.title) ELSE @,
      !.slug = IF is_some(data.slug) THEN unwrap(data.slug) ELSE @,
      !.description = IF is_some(data.description) THEN data.description ELSE @,
      !.path = IF is_some(data.path) THEN unwrap(data.path) ELSE @,
      !.pages = IF is_some(data.pages) THEN unwrap(data.pages) ELSE @,
      !.size = IF is_some(data.size) THEN unwrap(data.size) ELSE @,
      !.thumbnail = IF is_some(data.thumbnail) THEN unwrap(data.thumbnail) ELSE @,
      !.language = IF is_some(data.language) THEN data.language ELSE @,
      !.released_at = IF is_some(data.released_at) THEN data.released_at ELSE @,
      !.deleted_at = data.deleted_at,
      !.has_metadata = IF is_some(data.has_metadata) THEN unwrap(data.has_metadata) ELSE @ ]

\* the row the assembled UPDATE leaves: present fields overwrite, absent ones
\* stay, but description, language and deleted_at are always written
updated_row(old, data) ==
  [ old EXCEPT
      !.title = IF is_some(data.title) THEN unwrap(data.title) ELSE @,
      !.slug = IF is_some(data.slug) THEN unwrap(data.slug) ELSE @,
      !.description = data.description,
      !.path = IF is_some(data.path) /\ unwrap(data.path) /= old.path
               THEN unwrap(data.path) ELSE @,
      !.pages = IF is_some(data.pages) THEN unwrap(data.pages) ELSE @,
      !.size = IF is_some(data.size) THEN unwrap(data.size) ELSE @,
      !.thumbnail = IF is_some(data.thumbnail) THEN unwrap(data.thumbnail) ELSE @,
      !.language = data.language,
      !.released_at = IF is_some(data.released_at) THEN data.released_at ELSE @,
      !.deleted_at = data.deleted_at,
      !.has_metadata = IF is_some(data.has_metadata) THEN unwrap(data.has_metadata) ELSE @ ]

\* the UPDATE archives SET .. WHERE id = rec.id the QueryBuilder assembles
update_archive(tx, rec_id, data) ==
  execute(tx, [tx.db EXCEPT !.archives[rec_id] = updated_row(tx.db.archives[rec_id], data)],
          << Entry("UPDATE", "archives", rec_id, rec_id, "") >>)

\* the row of a first insert: slug defaults to slugify(title), has_metadata to false
first_row(data) ==
  [ id |-> 0,
    slug |-> IF is_some(data.slug) THEN unwrap(data.slug) ELSE slugify(unwrap(data.title)),
    title |-> unwrap(data.title), description |-> data.description,
    path |-> unwrap(data.path), hash |-> unwrap(data.hash),
    pages |-> unwrap(data.pages), size |-> unwrap(data.size),
    thumbnail |-> unwrap(data.thumbnail), language |-> data.language,
    released_at |-> data.released_at, deleted_at |-> None,
    has_metadata |-> IF is_some(data.has_metadata) THEN unwrap(data.has_metadata) ELSE FALSE ]

\* has_required that also asks for the slug
has_required_with_slug(data) ==
  /\ is_some(data.title) /\ is_some(data.path) /\ is_some(data.hash)
  /\ is_some(data.pages) /\ is_some(data.size) /\ is_some(data.thumbnail)
  /\ is_some(data.slug)

\* the six fields a first insert needs
has_required(data) ==
  /\ is_some(data.title) /\ is_some(data.path) /\ is_some(data.hash)
  /\ is_some(data.pages) /\ is_some(data.size) /\ is_some(data.thumbnail)

\* transaction.commit().await? : the last statement of the call
commit(tx) == execute(tx, tx.db, << >>)

\* rollback that keeps what the statements before the failing one wrote
rollback_keeps_writes(tx, db) == tx.db

\* `?` returns early and drops the Transaction, which rolls it back: the
\* store stays as it was at pool.begin()
rollback(tx, db) == db

Ok(id) == [ok |-> TRUE, id |-> id, error |-> ""]
Err(e) == [ok |-> FALSE, id |-> 0, error |-> e]

\* what a call leaves behind: the store, the returned Result, whether the
\* transaction committed, the symlink requested, the rows written, the
\* number of statements run, whether one of them failed
Outcome(db, result, committed, link, tx, branch, rec_id) ==
  [ db |-> db, result |-> result, committed |-> committed, link |-> link,
    log |-> IF committed THEN tx.log ELSE << >>, stmts |-> tx.n, failed |-> tx.err,
    branch |-> branch, rec |-> rec_id ]

\* utils::create_symlink(src, links/target)? : link_ok is whether it succeeds
create_symlink(out, id, link_ok) ==
  IF link_ok THEN [out EXCEPT !.result = Ok(id)] ELSE [out EXCEPT !.result = Err("link")]

\* the relations of the row the transaction has just inserted (RETURNING id)
relations_of_new_row(data, tx) ==
  IF tx.err THEN tx ELSE upsert_relations(data, Len(tx.db.archives), tx)

\* tx5: the transaction after the commit of the hash-mismatch branch
versioned(db, rec_id, link_ok, tx5) ==
  IF tx5.err THEN Outcome(rollback(tx5, db), Err("store"), FALSE, None, tx5, "version", rec_id)
  ELSE create_symlink(
         Outcome(tx5.db, Ok(Len(tx5.db.archives)), TRUE,
                 Some([path |-> db.archives[rec_id].path, target |-> Len(tx5.db.archives)]),
                 tx5, "version", rec_id),
         Len(tx5.db.archives), link_ok)

\* the hash-mismatch branch of upsert_archive: copy, relations of the new id,
\* soft delete of the found row, commit, symlink
version_archive(data, db, rec_id, src, link_ok, tx1) ==
  versioned(db, rec_id, link_ok,
    commit(soft_delete(
      relations_of_new_row(data,
        copy_archive(db.archives[rec_id].hash, unwrap(data.hash), src, tx1)),
      rec_id)))

\* the id the call returns: the found row's, or that of the row it inserted
archive_id_of(rec_id, tx) == IF rec_id /= 0 THEN rec_id ELSE Len(tx.db.archives)

\* an update or insert that asks for the symlink whether or not the commit
\* went through
written_links_first(db, rec_id, branch, path_link, link_ok, tx4) ==
  IF tx4.err
  THEN Outcome(rollback(tx4, db), Err("store"), FALSE,
               IF is_some(path_link)
               THEN Some([path |-> unwrap(path_link), target |-> archive_id_of(rec_id, tx4)])
               ELSE None,
               tx4, branch, rec_id)
  ELSE IF is_some(path_link)
  THEN create_symlink(
         Outcome(tx4.db, Ok(archive_id_of(rec_id, tx4)), TRUE,
                 Some([path |-> unwrap(path_link), target |-> archive_id_of(rec_id, tx4)]),
                 tx4, branch, rec_id),
         archive_id_of(rec_id, tx4), link_ok)
  ELSE Outcome(tx4.db, Ok(archive_id_of(rec_id, tx4)), TRUE, None, tx4, branch, rec_id)

\* tx4: the transaction after the commit of the update or insert branch;
\* path_link: the path the symlink is requested for, if any
written(db, rec_id, branch, path_link, link_ok, tx4) ==
  IF tx4.err THEN Outcome(rollback(tx4, db), Err("store"), FALSE, None, tx4, branch, rec_id)
  ELSE IF is_some(path_link)
  THEN create_symlink(
         Outcome(tx4.db, Ok(archive_id_of(rec_id, tx4)), TRUE,
                 Some([path |-> unwrap(path_link), target |-> archive_id_of(rec_id, tx4)]),
                 tx4, branch, rec_id),
         archive_id_of(rec_id, tx4), link_ok)
  ELSE Outcome(tx4.db, Ok(archive_id_of(rec_id, tx4)), TRUE, None, tx4, branch, rec_id)

\* tx1: the transaction after the identity lookup, which returned rec_id (0: no row)
after_lookup(data, db, rec_id, src, link_ok, tx1) ==
  IF tx1.err THEN Outcome(rollback(tx1, db), Err("store"), FALSE, None, tx1, "lookup", 0)
  ELSE IF rec_id /= 0 /\ is_some(data.hash) /\ unwrap(data.hash) /= db.archives[rec_id].hash
  THEN version_archive(data, db, rec_id, src, link_ok, tx1)
  ELSE IF rec_id /= 0
  THEN written(db, rec_id, "update", data.path, link_ok,
               commit(upsert_relations(data, rec_id, update_archive(tx1, rec_id, data))))
  ELSE IF has_required(data)
  THEN written(db, 0, "insert", data.path, link_ok,
               commit(relations_of_new_row(data, insert_archive(tx1, first_row(data)))))
  ELSE Outcome(rollback(tx1, db), Err("insufficient"), FALSE, None, tx1, "none", 0)

\* rec_id: the row fetch_optional returns (0: no row); src: see copy_archive;
\* fail: the statement that fails (0: none); link_ok: create_symlink succeeds
upsert_archive(data, db, rec_id, src, fail, link_ok) ==
  after_lookup(data, db, rec_id, src, link_ok, fetch(begin(db, fail)))

\* fetch_archive_data: SELECT .. FROM archives WHERE id = $1 (None when no row)
fetch_archive_data(id, db) ==
  IF id \in 1..Len(db.archives)
  THEN Some([ id |-> id, slug |-> db.archives[id].slug, title |-> db.archives[id].title,
              hash |-> db.archives[id].hash,
              images |-> {x \in db.archive_images : x.archive_id = id},
              sources |-> {x \in db.archive_sources : x.archive_id = id} ])
  ELSE None

(* ------------------------------- strings ------------------------------- *)
\* A string is a sequence of symbols: an operator character, or a run of
\* letters that no function looks into.  Two runs side by side make one word.
SP == " "
QUOTE == "\""
APOS == "'"

\* the first (last) position of s holding a symbol of C, 0 when there is none
find(s, C) ==
  IF \E i \in 1..Len(s) : s[i] \in C THEN CHOOSE i \in 1..Len(s) : s[i] \in C /\ \A j \in 1..i - 1 : s[j] \notin C
  ELSE 0
rfind(s, C) ==
  IF \E i \in 1..Len(s) : s[i] \in C
  THEN CHOOSE i \in 1..Len(s) : s[i] \in C /\ \A j \in i + 1..Len(s) : s[j] \notin C
  ELSE 0

\* str::replace(char, &str) and the removal of a set of characters
RECURSIVE replace_char(_, _, _)
replace_char(s, c, t) ==
  IF s = << >> THEN << >>
  ELSE (IF Head(s) = c THEN t ELSE << Head(s) >>) \o replace_char(Tail(s), c, t)
remove_chars(s, C) == SelectSeq(s, LAMBDA x : x \notin C)

\* str::split(char): the pieces between the separators, empty pieces included
RECURSIVE split(_, _)
split_at(s, c, i) ==
  IF i = 0 THEN << s >> ELSE << SubSeq(s, 1, i - 1) >> \o split(SubSeq(s, i + 1, Len(s)), c)
split(s, c) == split_at(s, c, find(s, {c}))

\* [String]::join(&str)
RECURSIVE join(_, _)
join(parts, sep) ==
  IF parts = << >> THEN << >>
  ELSE IF Len(parts) = 1 THEN parts[1]
  ELSE parts[1] \o sep \o join(Tail(parts), sep)

starts_with(s, c) == s /= << >> /\ s[1] = c
ends_with(s, c) == s /= << >> /\ s[Len(s)] = c
\* trim_end_matches, trim_start_matches, trim_matches of one character
trim_end_matches(s, c) == SubSeq(s, 1, rfind(s, {x \in Range(s) : x /= c}))
trim_start_matches(s, c) ==
  IF find(s, {x \in Range(s) : x /= c}) = 0 THEN << >>
  ELSE SubSeq(s, find(s, {x \in Range(s) : x /= c}), Len(s))
trim_matches(s, c) == trim_start_matches(trim_end_matches(s, c), c)
\* str::trim
trim(s) == trim_matches(s, SP)
\* String::insert(idx, char): the character lands after the first idx ones
insert(s, idx, c) == SubSeq(s, 1, idx) \o << c >> \o SubSeq(s, idx + 1, Len(s))

\* the positions where `pat` occurs in s, and str::replace(&str, ""): the
\* occurrences are taken from the left and do not overlap
occurs_at(s, pat, i) == i + Len(pat) - 1 <= Len(s) /\ SubSeq(s, i, i + Len(pat) - 1) = pat
RECURSIVE remove_str(_, _)
remove_str(s, pat) ==
  IF s = << >> \/ pat = << >> THEN s
  ELSE IF occurs_at(s, pat, 1) THEN remove_str(SubSeq(s, Len(pat) + 1, Len(s)), pat)
  ELSE << Head(s) >> \o remove_str(Tail(s), pat)

\* utils::trim_whitespace: runs of spaces become one space
RECURSIVE trim_whitespace(_)
trim_whitespace(s) ==
  IF Len(s) < 2 THEN s
  ELSE IF s[1] = SP /\ s[2] = SP THEN trim_whitespace(Tail(s))
  ELSE << Head(s) >> \o trim_whitespace(Tail(s))

(* ----------------------------- parse_query ----------------------------- *)
\* s.split(':').last()
after_colon(s) == split(s, ":")[Len(split(s, ":"))]
\* a compiler that keeps the `$` of an exact-match token
with_prefix_match_keeps_mark(s) == IF ends_with(s, "$") THEN s ELSE s \o << ":", "*" >>

\* a trailing `$` run is dropped, any other token gets `:*`
with_prefix_match(s) == IF ends_with(s, "$") THEN trim_end_matches(s, "$") ELSE s \o << ":", "*" >>
\* replacen('-', "!", 1) of a token that starts with '-'
with_negation(s) == IF starts_with(s, "-") THEN << "!" >> \o Tail(s) ELSE s
token_of(s) == with_negation(with_prefix_match(after_colon(s)))

\* the tokens between spaces (every `&` counts as a space), joined by `&`
tokens_of(query) == split(replace_char(query, "&", << SP >>), SP)
joined_tokens(query) ==
  join([i \in 1..Len(tokens_of(query)) |-> token_of(tokens_of(query)[i])], << "&" >>)

\* the parenthesis put into the first, the last and a middle piece between `|`
group_first(s) ==
  IF rfind(s, {"&", "|"}) /= 0 THEN insert(s, rfind(s, {"&", "|"}), "(") ELSE << "(" >> \o s
close_group(s) == IF find(s, {"&", "|"}) /= 0 THEN insert(s, find(s, {"&", "|"}) - 1, ")") ELSE s
group_last(s) == IF find(s, {"&", "|"}) /= 0 THEN close_group(s) ELSE s \o << ")" >>
open_group(s) == IF rfind(s, {"&"}) /= 0 THEN insert(s, rfind(s, {"&"}), "(") ELSE s
group_middle(s) == open_group(close_group(s))

grouped(pieces) ==
  IF Len(pieces) > 1
  THEN [i \in 1..Len(pieces) |->
          IF i = 1 THEN group_first(pieces[i])
          ELSE IF i = Len(pieces) THEN group_last(pieces[i])
          ELSE group_middle(pieces[i])]
  ELSE pieces

\* every piece but the last loses its trailing `$` or gets `:*`
finished(pieces) ==
  [i \in 1..Len(pieces) |-> IF i < Len(pieces) THEN with_prefix_match(pieces[i]) ELSE pieces[i]]

parse_query(query) ==
  IF query = << >> THEN << >>
  ELSE join(finished(grouped(split(joined_tokens(query), "|"))), << "|" >>)

(* ------------------------- the filter grammar -------------------------- *)
\* (?i)-?(artist|..|pages):(".*?"|'.*?'|[^\s]+)
FilterNames ==
  {"artist", "circle", "magazine", "event", "publisher", "parody", "tag", "male", "female",
   "misc", "other", "title", "pages"}

\* str::to_lowercase, on the symbols that hold an upper-case letter
to_lowercase(x) ==
  CASE x = "Artist" -> "artist"
    [] x = "Tag" -> "tag"
    [] x = "A" -> "a"
    [] x = "B" -> "b"
    [] x = "C" -> "c"
    [] x = "Bee" -> "bee"
    [] x = "T" -> "t"
    [] OTHER -> x

\* the last position of the value that starts at j (0: no value there): up to
\* the next double quote, else up to the next single quote, else the run of
\* symbols that are not a space
quoted_end(s, j, q) ==
  IF s[j] = q /\ find(SubSeq(s, j + 1, Len(s)), {q}) /= 0
  THEN j + find(SubSeq(s, j + 1, Len(s)), {q})
  ELSE 0
bare_end(s, j) ==
  IF s[j] = SP THEN 0
  ELSE IF find(SubSeq(s, j, Len(s)), {SP}) = 0 THEN Len(s)
  ELSE j + find(SubSeq(s, j, Len(s)), {SP}) - 2
value_end(s, j) ==
  IF j > Len(s) THEN 0
  ELSE IF quoted_end(s, j, QUOTE) /= 0 THEN quoted_end(s, j, QUOTE)
  ELSE IF quoted_end(s, j, APOS) /= 0 THEN quoted_end(s, j, APOS)
  ELSE bare_end(s, j)

\* a filter name at position f, followed by `:` and a value
filter_at(s, f) ==
  /\ f + 1 <= Len(s)
  /\ to_lowercase(s[f]) \in FilterNames
  /\ s[f + 1] = ":"
  /\ value_end(s, f + 2) /= 0
\* a match of the expression starts at i: with the `-` when there is one
match_at(s, i) == (s[i] = "-" /\ filter_at(s, i + 1)) \/ filter_at(s, i)
name_at(s, i) == IF s[i] = "-" /\ filter_at(s, i + 1) THEN i + 1 ELSE i

\* one capture: get(0) is text, get(1) is name, get(2) is value
capture_at(s, i) ==
  [ text |-> SubSeq(s, i, value_end(s, name_at(s, i) + 2)),
    name |-> s[name_at(s, i)],
    value |-> SubSeq(s, name_at(s, i) + 2, value_end(s, name_at(s, i) + 2)),
    last |-> value_end(s, name_at(s, i) + 2) ]

\* captures_iter: the matches from the left, each starting after the one before
next_match(s, p) ==
  IF \E i \in p..Len(s) : match_at(s, i)
  THEN CHOOSE i \in p..Len(s) : match_at(s, i) /\ \A j \in p..i - 1 : ~ match_at(s, j)
  ELSE 0
RECURSIVE captures_from(_, _)
captures_next(s, i) ==
  IF i = 0 THEN << >> ELSE << capture_at(s, i) >> \o captures_from(s, capture_at(s, i).last + 1)
captures_from(s, p) == captures_next(s, next_match(s, p))
captures_iter(s) == captures_from(s, 1)

(* ----------------------------- clean_value ----------------------------- *)
\* value = value.replace(capture, "") for every capture in turn
RECURSIVE remove_captures(_, _)
remove_captures(value, captures) ==
  IF captures = << >> THEN value
  ELSE remove_captures(remove_str(value, Head(captures).text), Tail(captures))

clean_value(query) == remove_chars(trim(remove_captures(query, captures_iter(query))), {":"})

(* --------------------------- add_tag_matches --------------------------- *)
\* the value of a capture: quotes trimmed, `*` to `%`, parentheses removed
filter_value(raw) ==
  remove_chars(replace_char(trim_matches(trim_matches(raw, QUOTE), APOS), "*", << "%" >>),
               {"(", ")"})

\* or_splits and, within each, and_splits
or_groups(value) == [i \in 1..Len(split(value, "|")) |-> split(split(value, "|")[i], "&")]

\* the condition pushed for one capture
predicate_of(capture) ==
  [ tag_type |-> to_lowercase(capture.name),
    negate |-> starts_with(capture.text, "-"),
    value |-> filter_value(capture.value),
    groups |-> or_groups(filter_value(capture.value)) ]

predicates_of(value) ==
  [i \in 1..Len(captures_iter(value)) |-> predicate_of(captures_iter(value)[i])]

(* ------------------------ search: the compilation ---------------------- *)
strip_set == {"[", "]", "(", ")", "~", "&"}
stripped(value) == remove_chars(value, strip_set)
\* `value`, `clean` and `parsed` of search
search_value(value) == trim_whitespace(stripped(value))
search_clean(value) == trim_whitespace(clean_value(search_value(value)))
search_parsed(value) == parse_query(search_clean(value))

\* the ranking clause is pushed in phase 1 and in phase 2 when parsed is not empty
phase1_ranked(parsed) == parsed /= << >>
phase2_ranked(parsed) == parsed /= << >>

(* ------------------------ the store's text search --------------------- *)
\* tsvector @@ to_tsquery(expression): the truth of the expression for a
\* document whose words are env; `!` binds tighter than `&`, `&` tighter than
\* `|`; a result is the value read and the position after it
RECURSIVE ts_or(_, _, _), ts_and(_, _, _), ts_not(_, _, _), ts_or_rest(_, _, _), ts_and_rest(_, _, _)
ts_word(e, p, env) ==
  [ v |-> e[p] \in env,
    p |-> IF p + 2 <= Len(e) /\ e[p + 1] = ":" /\ e[p + 2] = "*" THEN p + 3 ELSE p + 1 ]
ts_atom(e, p, env) ==
  IF e[p] = "(" THEN [ts_or(e, p + 1, env) EXCEPT !.p = @ + 1] ELSE ts_word(e, p, env)
ts_not(e, p, env) ==
  IF e[p] = "!" THEN [ts_not(e, p + 1, env) EXCEPT !.v = ~ @] ELSE ts_atom(e, p, env)
ts_and_rest(e, r, env) ==
  IF r.p <= Len(e) /\ e[r.p] = "&"
  THEN ts_and_rest(e, [ts_not(e, r.p + 1, env) EXCEPT !.v = @ /\ r.v], env)
  ELSE r
ts_and(e, p, env) == ts_and_rest(e, ts_not(e, p, env), env)
ts_or_rest(e, r, env) ==
  IF r.p <= Len(e) /\ e[r.p] = "|"
  THEN ts_or_rest(e, [ts_and(e, r.p + 1, env) EXCEPT !.v = @ \/ r.v], env)
  ELSE r
ts_or(e, p, env) == ts_or_rest(e, ts_and(e, p, env), env)
ts_eval(e, env) == ts_or(e, 1, env).v

\* the words of title_tsv || artists_tsv || circles_tsv || magazines_tsv ||
\* parodies_tsv || tags_tsv of an archive
names_held(db, id, type) ==
  {t.name : t \in {x \in db.terms[TagType_table(type)] :
                     [archive_id |-> id, term_id |-> x.id] \in db.rels[TagType_relation(type)]}}
tag_names_held(db, id) ==
  {t.name : t \in {x \in db.terms["tags"] :
                     \E r \in db.archive_tags : r.archive_id = id /\ r.tag_id = x.id}}
document(db, id) ==
  {to_lowercase(w) :
     w \in {db.archives[id].title} \cup tag_names_held(db, id)
           \cup UNION {names_held(db, id, type) : type \in {"Artist", "Circle", "Magazine", "Parody"}}}

(* ------------------------ search: the conditions ----------------------- *)
\* a name or a slug as symbols, lower-cased as ILIKE compares them
text_of(name) == IF name = "Bee" THEN << "b", "ee" >> ELSE << to_lowercase(name) >>

\* text ILIKE pattern: `%` stands for any run of symbols
RECURSIVE ilike(_, _)
ilike(text, pattern) ==
  IF pattern = << >> THEN text = << >>
  ELSE IF Head(pattern) = "%"
  THEN \E k \in 0..Len(text) : ilike(SubSeq(text, k + 1, Len(text)), Tail(pattern))
  ELSE text /= << >> /\ Head(text) = to_lowercase(Head(pattern)) /\ ilike(Tail(text), Tail(pattern))

\* the match on tag_type: the facets with a condition, and the namespace
\* pattern of the five names that stand for tags
TaxonomyNames == {"artist", "circle", "magazine", "publisher", "parody"}
TagNames == {"tag", "male", "female", "misc", "other"}
TagType_of(tag_type) ==
  CASE tag_type = "artist" -> "Artist"
    [] tag_type = "circle" -> "Circle"
    [] tag_type = "magazine" -> "Magazine"
    [] tag_type = "publisher" -> "Publisher"
    [] tag_type = "parody" -> "Parody"
namespace_of(tag_type) ==
  CASE tag_type = "tag" -> << "%", "%" >>
    [] tag_type = "male" -> << "male" >>
    [] tag_type = "female" -> << "female" >>
    [] OTHER -> << "misc" >>

\* get_sql under EXISTS: a relation row of the archive whose term has the
\* column (name or slug) ILIKE the value
taxonomy_exists(db, id, type, column, value) ==
  \E r \in db.rels[TagType_relation(type)] :
    /\ r.archive_id = id
    /\ \E t \in db.terms[TagType_table(type)] : t.id = r.term_id /\ ilike(text_of(t[column]), value)
tag_exists(db, id, column, value, namespace) ==
  \E r \in db.archive_tags :
    /\ r.archive_id = id
    /\ \E t \in db.terms["tags"] : t.id = r.tag_id /\ ilike(text_of(t[column]), value)
    /\ ilike(<< r.namespace >>, namespace)
column_exists(db, id, tag_type, column, value) ==
  IF tag_type \in TaxonomyNames THEN taxonomy_exists(db, id, TagType_of(tag_type), column, value)
  ELSE tag_exists(db, id, column, value, namespace_of(tag_type))

\* one and_split: EXISTS (name) OR EXISTS (slug), and under negation
\* NOT EXISTS (name) AND NOT EXISTS (slug)
and_split_holds(db, id, pred, value) ==
  IF pred.negate
  THEN ~ column_exists(db, id, pred.tag_type, "name", value)
       /\ ~ column_exists(db, id, pred.tag_type, "slug", value)
  ELSE column_exists(db, id, pred.tag_type, "name", value)
       \/ column_exists(db, id, pred.tag_type, "slug", value)

\* one capture: the or_splits joined by OR, the and_splits of each by AND
capture_holds(db, id, pred) ==
  \E i \in 1..Len(pred.groups) :
    \A j \in 1..Len(pred.groups[i]) : and_split_holds(db, id, pred, pred.groups[i][j])

\* the match arm pushes a condition for these names only; for the other names
\* of the grammar the parentheses around the missing condition stay open
well_formed(preds) ==
  \A i \in 1..Len(preds) : preds[i].tag_type \in TaxonomyNames \cup TagNames

\* a blacklist entry `namespace:id`; an id that does not parse gives none
parse_i64(s) ==
  CASE s = << "1" >> -> Some(1)
    [] s = << "2" >> -> Some(2)
    [] s = << "3" >> -> Some(3)
    [] OTHER -> None
\* a blacklist that takes every namespace for a tag
blacklist_type_tags_only(namespace) == "Tag"

blacklist_type(namespace) ==
  CASE namespace = << "a" >> -> "Artist"
    [] namespace = << "c" >> -> "Circle"
    [] namespace = << "m" >> -> "Magazine"
    [] namespace = << "e" >> -> "Event"
    [] namespace = << "ps" >> -> "Publisher"
    [] namespace = << "p" >> -> "Parody"
    [] OTHER -> "Tag"
taxonomy_id(taxonomy) ==
  IF Len(split(taxonomy, ":")) >= 2 THEN parse_i64(split(taxonomy, ":")[2]) ELSE None
\* NOT EXISTS (SELECT 1 FROM {relation} WHERE archive_id = archives.id AND {id} = $n)
not_blacklisted(db, id, taxonomy) ==
  IF is_none(taxonomy_id(taxonomy)) THEN TRUE
  ELSE IF blacklist_type(split(taxonomy, ":")[1]) = "Tag"
  THEN ~ \E r \in db.archive_tags : r.archive_id = id /\ r.tag_id = unwrap(taxonomy_id(taxonomy))
  ELSE [archive_id |-> id, term_id |-> unwrap(taxonomy_id(taxonomy))]
         \notin db.rels[TagType_relation(blacklist_type(split(taxonomy, ":")[1]))]

\* everything add_tag_matches adds to the WHERE clause, for one archive
tag_matches(db, id, preds, blacklist) ==
  /\ \A i \in 1..Len(preds) : capture_holds(db, id, preds[i])
  /\ \A i \in 1..Len(blacklist) : not_blacklisted(db, id, blacklist[i])

(* ------------------------- search: the two phases ---------------------- *)
\* .take(24)
PageSize == 24

\* a phase 2 that is not held to the page of phase 1
phase2_ids_of_any_page(db, parsed, preds, blacklist, all_ids, paginated) ==
  SelectSeq(SetToSorted(1..Len(db.archives)),
    LAMBDA id : /\ is_none(db.archives[id].deleted_at)
                /\ phase2_ranked(parsed) => ts_eval(parsed, document(db, id))
                /\ tag_matches(db, id, preds, blacklist))

\* a phase 1 without `deleted_at IS NULL`
phase1_rows_with_deleted(db, parsed, preds, blacklist) ==
  {id \in 1..Len(db.archives) :
     /\ phase1_ranked(parsed) => ts_eval(parsed, document(db, id))
     /\ tag_matches(db, id, preds, blacklist)}

\* WHERE deleted_at IS NULL [AND tsv @@ to_tsquery(parsed)] and the conditions
\* of add_tag_matches: the rows of phase 1
phase1_rows(db, parsed, preds, blacklist) ==
  {id \in 1..Len(db.archives) :
     /\ is_none(db.archives[id].deleted_at)
     /\ phase1_ranked(parsed) => ts_eval(parsed, document(db, id))
     /\ tag_matches(db, id, preds, blacklist)}

\* StdRng::from_seed(Sha256(seed)): the index drawn for position i (0-based)
\* is a fixed function of the seed string; no seed counts as the empty string
seed_of(seed) == IF is_some(seed) THEN unwrap(seed) ELSE ""
gen_index(seed, i) ==
  CASE seed_of(seed) = "" -> 0
    [] seed_of(seed) = "s1" -> i
    [] OTHER -> i \div 2

\* SliceRandom::shuffle: for i from len - 1 down to 1, swap(i, gen_index(i + 1))
swap(ids, i, j) == [ids EXCEPT ![i] = ids[j], ![j] = ids[i]]
RECURSIVE shuffle_from(_, _, _)
shuffle_from(ids, seed, i) ==
  IF i < 1 THEN ids ELSE shuffle_from(swap(ids, i + 1, gen_index(seed, i) + 1), seed, i - 1)
shuffle(ids, seed) == shuffle_from(ids, seed, Len(ids) - 1)

\* all_ids: the rows as the store returned them, shuffled for Sorting::Random
all_ids_of(rows, sort, seed) == IF sort = "Random" THEN shuffle(rows, seed) ELSE rows

\* a slice that counts the pages from 0
paginated_ids_from_zero(all_ids, page) ==
  SubSeq(all_ids, page * 24 + 1, IF (page + 1) * 24 < Len(all_ids) THEN (page + 1) * 24 ELSE Len(all_ids))

\* all_ids.iter().skip((page - 1) * 24).take(24)
skip(ids, n) == SubSeq(ids, n + 1, Len(ids))
take(ids, n) == SubSeq(ids, 1, IF n < Len(ids) THEN n ELSE Len(ids))
paginated_ids(all_ids, page) == take(skip(all_ids, (page - 1) * PageSize), PageSize)

\* phase 2: the same WHERE clause AND archives.id = ANY(paginated_ids),
\* ORDER BY ARRAY_POSITION(all_ids, archives.id)
phase2_ids(db, parsed, preds, blacklist, all_ids, paginated) ==
  SelectSeq(all_ids,
    LAMBDA id : /\ id \in Range(paginated)
                /\ id \in 1..Len(db.archives)
                /\ is_none(db.archives[id].deleted_at)
                /\ phase2_ranked(parsed) => ts_eval(parsed, document(db, id))
                /\ tag_matches(db, id, preds, blacklist))

\* the last statement: FROM archives WHERE id = ANY(ids) ORDER BY
\* ARRAY_POSITION(ids, id); an item of the result
hydrated(db, ids) ==
  [i \in 1..Len(ids) |->
     [ id |-> ids[i], hash |-> db.archives[ids[i]].hash, title |-> db.archives[ids[i]].title,
       artists |-> names_held(db, ids[i], "Artist"), tags |-> tag_names_held(db, ids[i]) ]]

\* Ok((archives, all_ids.len())), after phase 2 and the last statement
found(db, parsed, preds, blacklist, all_ids, page) ==
  [ ok |-> TRUE, all_ids |-> all_ids,
    paginated |-> paginated_ids(all_ids, page),
    items |-> hydrated(db, phase2_ids(db, parsed, preds, blacklist, all_ids,
                                      paginated_ids(all_ids, page))),
    total |-> Len(all_ids) ]

\* search(query, pool), `rows` being the phase-1 rows in the order the store
\* returns them; a statement that is no SQL fails the call at the first
\* fetch_all
search(query, db, rows) ==
  IF ~ well_formed(predicates_of(query.value))
  THEN [ok |-> FALSE, all_ids |-> << >>, paginated |-> << >>, items |-> << >>, total |-> 0]
  ELSE found(db, search_parsed(query.value), predicates_of(query.value), query.blacklist,
             all_ids_of(rows, query.sort, query.seed), query.page)

\* the orders in which the store may return a set of rows: title, pages and
\* released_at tie in the stores of this model, created_at and rank are set by
\* the store, and without ORDER BY any order is allowed; of a set past
\* MaxPermuted rows only the two orders by id are taken
store_orders(S) ==
  IF Cardinality(S) <= MaxPermuted
  THEN {f \in [1..Cardinality(S) -> S] : \A i, j \in 1..Cardinality(S) : f[i] = f[j] => i = j}
  ELSE {SetToSorted(S), [i \in 1..Cardinality(S) |-> SetToSorted(S)[Cardinality(S) + 1 - i]]}

(* ------------------------------- inputs -------------------------------- *)
Opt(S) == {None} \cup {Some(x) : x \in S}
Paths == {"p1", "p2"}
Hashes == {"h1", "h2"}
RequiredOthers == {"title", "pages", "size", "thumbnail"}

\* Relations with every list absent
NoRelations ==
  [ artists |-> None, circles |-> None, magazines |-> None, events |-> None,
    publishers |-> None, parodies |-> None, tags |-> None, sources |-> None,
    images |-> None ]

\* an UpsertArchiveData: `missing` names the required fields left out, `full`
\* says whether the optional metadata is given, rel holds the relation lists
ArchiveData(id, path, hash, missing, deleted_at, full, rel) ==
  [ id |-> id, path |-> path, hash |-> hash,
    title |-> IF "title" \in missing THEN None ELSE Some("T"),
    pages |-> IF "pages" \in missing THEN None ELSE Some(10),
    size |-> IF "size" \in missing THEN None ELSE Some(100),
    thumbnail |-> IF "thumbnail" \in missing THEN None ELSE Some(1),
    slug |-> IF full THEN Some("u") ELSE None,
    description |-> IF full THEN Some("d") ELSE None,
    language |-> IF full THEN Some("en") ELSE None,
    released_at |-> IF full THEN Some("r") ELSE None,
    has_metadata |-> IF full THEN Some(TRUE) ELSE None,
    deleted_at |-> deleted_at,
    artists |-> rel.artists, circles |-> rel.circles, magazines |-> rel.magazines,
    events |-> rel.events, publishers |-> rel.publishers, parodies |-> rel.parodies,
    tags |-> rel.tags, sources |-> rel.sources, images |-> rel.images ]

\* inject: whether one statement of the call fails; link_ok: create_symlink succeeds
CallOf(data, inject, link_ok) == [data |-> data, inject |-> inject, link_ok |-> link_ok]

\* calls of the writer without relation lists: every path and hash, an id,
\* a missing required field, a failing statement, a failing link
IdentityCalls ==
  {CallOf(ArchiveData(None, path, hash, {}, None, FALSE, NoRelations), FALSE, TRUE) :
     path \in Opt(Paths), hash \in Opt(Hashes)}
  \cup
  {CallOf(ArchiveData(Some(1), None, hash, {}, None, FALSE, NoRelations), FALSE, TRUE) :
     hash \in Opt(Hashes)}
  \cup
  {CallOf(ArchiveData(None, Some("p1"), Some("h1"), {m}, None, FALSE, NoRelations), FALSE, TRUE) :
     m \in RequiredOthers}
  \cup
  {CallOf(ArchiveData(None, Some("p1"), Some(hash), {}, None, FALSE, NoRelations), TRUE, TRUE) :
     hash \in Hashes}
  \cup
  {CallOf(ArchiveData(None, Some("p1"), hash, {}, None, FALSE, NoRelations), FALSE, FALSE) :
     hash \in Opt(Hashes)}

\* calls of the writer that differ in the metadata: with and without the
\* optional fields and the required ones, with deleted_at set
MetadataCalls ==
  {CallOf(ArchiveData(None, Some("p1"), hash, v[1], v[2], v[3], NoRelations), FALSE, TRUE) :
     hash \in Opt(Hashes),
     v \in {<< {}, None, FALSE >>, << {}, None, TRUE >>, << RequiredOthers, None, FALSE >>,
            << RequiredOthers, Some("d"), FALSE >>}}
  \cup
  {CallOf(ArchiveData(Some(1), Some("p2"), None, RequiredOthers, None, FALSE, NoRelations),
          FALSE, TRUE),
   CallOf(ArchiveData(Some(1), None, None, RequiredOthers, None, TRUE, NoRelations), FALSE, TRUE)}

\* an ArchiveSource and an ArchiveImage of the input
Source(name, url) == [name |-> name, url |-> url]
Image(filename, page_number, width) ==
  [filename |-> filename, page_number |-> page_number, width |-> width, height |-> None]

\* relation lists of the writer's calls: one entry per kind; a circle list
\* whose two names share a slug; lists that clear what an archive holds
RelOne ==
  [ NoRelations EXCEPT !.artists = Some(<< "A" >>), !.tags = Some(<< << "B", "male" >> >>),
                       !.sources = Some(<< Source("n", Some("u1")) >>),
                       !.images = Some(<< Image("f1", 1, None) >>) ]
RelSameSlug == [ NoRelations EXCEPT !.artists = Some(<< "B" >>), !.circles = Some(<< "A", "a" >>) ]
RelClear ==
  [ NoRelations EXCEPT !.artists = Some(<< >>), !.tags = Some(<< >>), !.images = Some(<< >>) ]

\* calls of the writer with relation lists, with and without a failing statement
RelationCalls ==
  {CallOf(ArchiveData(None, Some("p1"), Some(hash), {}, None, FALSE, rel), FALSE, TRUE) :
     hash \in Hashes, rel \in {NoRelations, RelOne, RelSameSlug, RelClear}}
  \cup
  {CallOf(ArchiveData(None, Some("p1"), Some(hash), {}, None, FALSE, rel), TRUE, TRUE) :
     hash \in Hashes, rel \in {RelOne, RelClear}}

\* the relation lists the synchronizers are given, one kind at a time; the
\* facet names keep the pair that shares a slug and one name apart from it
FacetInputs == SeqsUpTo(Names \ {"C"}, MaxInput)
TagInputs == SeqsUpTo({<< "A", "male" >>, << "A", "female" >>, << "B", "male" >>}, MaxInput)
SourceInputs ==
  SeqsUpTo({Source("n", Some("u1")), Source("n", Some("u2")), Source("n", None)}, MaxInput)
ImageInputs ==
  SeqsUpTo({Image("f1", 1, None), Image("f2", 1, Some(10)), Image("f1", 2, None)}, MaxInput)

\* an in-place update of archive 1 that carries nothing but one relation list
SyncCall(kind, list) ==
  CallOf(ArchiveData(Some(1), None, None, {"title", "pages", "size", "thumbnail"}, None, FALSE,
                     [NoRelations EXCEPT ![kind] = Some(list)]),
         FALSE, TRUE)

SyncCalls ==
  {SyncCall(kind, list) : kind \in {"artists", "circles"}, list \in FacetInputs}
  \cup {SyncCall("tags", list) : list \in TagInputs}
  \cup {SyncCall("sources", list) : list \in SourceInputs}
  \cup {SyncCall("images", list) : list \in ImageInputs}

(* --------------------------- search strings ---------------------------- *)
\* terms joined by a space or by `|`, up to n of them
RECURSIVE TermQueries(_, _)
TermQueries(T, n) ==
  IF n = 1 THEN T
  ELSE TermQueries(T, n - 1)
       \cup {q \o << sep >> \o t : q \in TermQueries(T, n - 1), sep \in {SP, "|"}, t \in T}

\* free texts of plain words
PlainWords == {"foo", "bar", "baz"}
PlainQueries == TermQueries({<< w >> : w \in PlainWords}, MaxWords)

\* a word, negated, or with the exact-match mark
WordTerms == UNION {{<< w >>, << "-", w >>, << w, "$" >>} : w \in {"foo", "bar"}}

\* [-]facet:value, with the values: bare, one that another starts with, OR
\* and AND groups, quoted with a space, parenthesized, with a wildcard
FilterValues ==
  { << "jane" >>, << "x" >>, << "x", "y" >>, << "x", "|", "y" >>, << "x", "&", "y" >>,
    << QUOTE, "x", SP, "y", QUOTE >>, << "(", "x", ")" >>, << "x", "*" >> }
Filter(negated, facet, value) ==
  [ negated |-> negated, facet |-> facet, value |-> value,
    text |-> (IF negated THEN << "-" >> ELSE << >>) \o << facet, ":" >> \o value ]
Filters ==
  {Filter(negated, facet, value) :
     negated \in BOOLEAN, facet \in {"artist", "tag", "Tag"}, value \in FilterValues}

\* a fragment with a colon that is no filter, and stripped characters
OddTerms == {<< "foo", ":", "bar" >>, << "foo", "(", "bar", "]" >>, << ":" >>}

MixedTerms == WordTerms \cup {f.text : f \in Filters} \cup OddTerms
MixedQueries ==
  MixedTerms \cup {a \o << sep >> \o b : a \in MixedTerms, b \in MixedTerms, sep \in {SP, "|"}}

Queries == {<< >>} \cup PlainQueries \cup MixedQueries

(* ---------------------------- search inputs ---------------------------- *)
\* the store after a call that takes the first row the lookup matches
Least(S) == CHOOSE x \in S : \A y \in S : x <= y
first_match(db, data) == IF lookup(db, data) = {} THEN 0 ELSE Least(lookup(db, data))
ingested(db, data) ==
  upsert_archive(data, db, first_match(db, data),
                 IF first_match(db, data) = 0 THEN 0
                 ELSE Least(rows_with_hash(db, db.archives[first_match(db, data)].hash)),
                 0, TRUE).db

\* two archives with artists, a circle and tags; and the same after archive 1
\* was re-ingested with another hash: archive 3 replaces it, archive 1 is
\* soft-deleted
TwoArchives ==
  ingested(
    ingested(EmptyDb,
      ArchiveData(None, Some("p1"), Some("h1"), {}, None, FALSE,
        [NoRelations EXCEPT !.artists = Some(<< "A" >>), !.circles = Some(<< "C" >>),
                            !.tags = Some(<< << "B", "male" >> >>)])),
    ArchiveData(None, Some("p2"), Some("h2"), {}, None, FALSE,
      [NoRelations EXCEPT !.artists = Some(<< "A", "B" >>),
                          !.tags = Some(<< << "A", "female" >> >>)]))
OneVersioned ==
  ingested(TwoArchives,
    ArchiveData(None, Some("p1"), Some("h3"), {}, None, FALSE,
      [NoRelations EXCEPT !.artists = Some(<< "B" >>)]))
\* and three live archives
ThreeArchives ==
  ingested(TwoArchives,
    ArchiveData(None, Some("p3"), Some("h3"), {}, None, FALSE,
      [NoRelations EXCEPT !.artists = Some(<< "B" >>), !.events = Some(<< "A" >>),
                          !.tags = Some(<< << "A", "misc" >> >>)]))

\* n archives without relations, the second one soft-deleted by an update
PlainArchives(n) ==
  [EmptyDb EXCEPT !.archives =
     [i \in 1..n |->
        [first_row(ArchiveData(None, Some(<< "p", i >>), Some(<< "h", i >>), {}, None, FALSE,
                               NoRelations))
           EXCEPT !.id = i, !.deleted_at = IF i = 2 THEN Some("now") ELSE None]]]

\* stores of less than a page, of exactly one page, of a page and one row,
\* and of two pages and one row
SearchStores ==
  {TwoArchives, OneVersioned, ThreeArchives, PlainArchives(PageSize + 1), PlainArchives(PageSize + 2),
   PlainArchives(2 * PageSize + 2)}

\* query.value: free text that matches every title, or none; filters on
\* artists, circles and tags, negated, with OR and AND groups and a wildcard;
\* the facets of the grammar without a condition, and a name that is no facet
SearchValues ==
  { << >>, << "t" >>, << "foo" >>,
    << "artist", ":", "a" >>, << "-", "artist", ":", "a" >>,
    << "artist", ":", "a", "|", "b" >>, << "-", "artist", ":", "a", "|", "b" >>,
    << "artist", ":", "a", "&", "b" >>, << "-", "artist", ":", "a", "&", "b" >>,
    << "circle", ":", "C" >>, << "tag", ":", "b", "*" >>, << "-", "tag", ":", "b", "*" >>,
    << "male", ":", "b" >>, << "female", ":", "b" >>, << "t", SP, "-", "artist", ":", "b" >>,
    << "title", ":", "t" >>, << "pages", ":", "t" >>, << "event", ":", "a" >>,
    << "misc", ":", "a" >>, << "other", ":", "a" >>, << "foo", ":", "t" >> }
\* query.blacklist
Blacklists ==
  { << >>, << << "a", ":", "1" >> >>, << << "a", ":", "2" >> >>, << << "c", ":", "1" >> >>,
    << << "t", ":", "1" >> >>, << << "x", ":", "2" >> >>, << << "a", ":", "x" >> >>,
    << << "a", ":", "2" >>, << "t", ":", "2" >> >> }
Sortings == {"Relevance", "Title", "Random"}
Seeds == {None, Some("s1"), Some("s2")}

SearchQuery(value, blacklist, sort, seed, page) ==
  [value |-> value, blacklist |-> blacklist, sort |-> sort, seed |-> seed, page |-> page]

\* every query on the small stores; on the stores of a page and more the
\* queries that keep the rows
SearchQueries(store) ==
  { SearchQuery(value, blacklist, sort, seed, page) :
      value \in IF Len(store.archives) <= MaxPermuted THEN SearchValues ELSE {<< >>, << "t" >>},
      blacklist \in IF Len(store.archives) <= MaxPermuted THEN Blacklists ELSE {<< >>},
      sort \in Sortings, seed \in Seeds, page \in 1..MaxPage }

(* -------------------------------- state -------------------------------- *)
\* db: the store; last: the last call and what it returned; inflight: the
\* calls that run side by side with others, each with its position
VARIABLES db, last, inflight

vars == << db, last, inflight >>

\* what `last` keeps of the input of a call: the hash, the required fields
\* that are absent, the relation lists, and the metadata fields of the call
InputOf(data) ==
  [ hash |-> data.hash,
    data |-> [f \in {"title", "slug", "description", "path", "pages", "size", "thumbnail",
                     "language", "released_at", "has_metadata", "deleted_at"} |-> data[f]],
    missing |-> {f \in {"title", "path", "hash", "pages", "size", "thumbnail"} : is_none(data[f])},
    rel |-> [k \in DOMAIN NoRelations |-> data[k]] ]

InitLast ==
  [ op |-> "init", input |-> InputOf(ArchiveData(None, None, None, {}, None, FALSE, NoRelations)),
    result |-> Err(""), committed |-> FALSE, link |-> None, log |-> << >>, stmts |-> 0,
    failed |-> FALSE, branch |-> "none", rec |-> 0 ]

\* no call runs side by side with another
NoCalls == << >>

Init == db = EmptyDb /\ last = InitLast /\ inflight = NoCalls

\* the rows fetch_optional may return for the identity lookup (0: none)
Picks(data) == IF lookup(db, data) = {} THEN {0} ELSE lookup(db, data)
\* the rows copy_archive's fetch_one may return
Sources(rec) == IF rec = 0 THEN {0} ELSE rows_with_hash(db, db.archives[rec].hash)
\* the statements of the call that may fail (0: none fails)
Failures(c, rec, src) ==
  IF c.inject THEN 1..upsert_archive(c.data, db, rec, src, 0, TRUE).stmts ELSE {0}

\* one call of upsert_archive, transaction and symlink request included
UpsertArchive(calls) ==
  \E c \in calls : \E rec \in Picks(c.data) : \E src \in Sources(rec) :
    \E fail \in Failures(c, rec, src) :
      \E out \in {upsert_archive(c.data, db, rec, src, fail, c.link_ok)} :
         /\ Len(out.db.archives) <= MaxArchives
         /\ db' = out.db
         /\ last' = [ op |-> "upsert_archive", input |-> InputOf(c.data),
                      result |-> out.result, committed |-> out.committed,
                      link |-> out.link, log |-> out.log, stmts |-> out.stmts,
                      failed |-> out.failed, branch |-> out.branch, rec |-> out.rec ]
         /\ UNCHANGED inflight

Next == UpsertArchive(IdentityCalls)

Spec == Init /\ [][Next]_vars

\* the writer called with relation lists
NextRel == UpsertArchive(RelationCalls)

SpecRel == Init /\ [][NextRel]_vars

\* the writer called with varying metadata
NextMetadata == UpsertArchive(MetadataCalls)

SpecMetadata == Init /\ [][NextMetadata]_vars

\* the relation kinds a call synchronizes
KindOf(rel) == {k \in DOMAIN rel : is_some(rel[k])}

\* the store after the first insert of an archive without relations
InitSync ==
  /\ db = upsert_archive(ArchiveData(None, Some("p1"), Some("h1"), {}, None, FALSE, NoRelations),
                         EmptyDb, 0, 0, 0, TRUE).db
  /\ last = InitLast
  /\ inflight = NoCalls

\* the synchronizers, each reached through an in-place update of archive 1;
\* a behaviour keeps to the relation kind of its first call
NextSync ==
  UpsertArchive({c \in SyncCalls :
                   last.op = "init" \/ KindOf(last.input.rel) = KindOf(InputOf(c.data).rel)})

SpecSync == InitSync /\ [][NextSync]_vars

\* what search compiles of query.value before it runs a statement: the free
\* text left for the ranking expression, the expression, the filters that
\* clean_value removed and the conditions add_tag_matches pushes
compiled(value) ==
  [ op |-> "compile", value |-> value,
    clean |-> search_clean(value),
    parsed |-> search_parsed(value),
    removed |-> [i \in 1..Len(captures_iter(search_value(value))) |->
                   captures_iter(search_value(value))[i].text],
    predicates |-> predicates_of(value),
    ranked |-> << phase1_ranked(search_parsed(value)), phase2_ranked(search_parsed(value)) >> ]

InitCompile ==
  db = EmptyDb /\ last \in {[op |-> "query", value |-> q] : q \in Queries} /\ inflight = NoCalls

Compile == last.op = "query" /\ last' = compiled(last.value) /\ UNCHANGED << db, inflight >>

SpecCompile == InitCompile /\ [][Compile]_vars

\* a store and a query; the query is then run, once or again
InitSearch ==
  \E store \in SearchStores :
    /\ db = store
    /\ last \in {[op |-> "query", query |-> q] : q \in SearchQueries(store)}
    /\ inflight = NoCalls

\* one call of search, the store returning the phase-1 rows in some order
Search ==
  /\ last.op \in {"query", "search"}
  /\ \E rows \in store_orders(phase1_rows(db, search_parsed(last.query.value),
                                         predicates_of(last.query.value), last.query.blacklist)) :
       \E out \in {search(last.query, db, rows)} :
         last' = [ op |-> "search", query |-> last.query, ok |-> out.ok, all_ids |-> out.all_ids,
                   paginated |-> out.paginated, items |-> out.items, total |-> out.total ]
  /\ UNCHANGED << db, inflight >>

SpecSearch == InitSearch /\ [][Search]_vars

\* two calls of upsert_archive side by side, both with the path p3 and the
\* hash h3: on the empty store, on a store of two other archives, and on a
\* store that holds p3/h3 already
RaceData == {ArchiveData(None, Some("p3"), Some("h3"), {}, None, full, rel) :
               full \in BOOLEAN, rel \in {NoRelations, RelOne}}
RaceStores ==
  {EmptyDb, TwoArchives,
   ingested(EmptyDb, ArchiveData(None, Some("p3"), Some("h3"), {}, None, FALSE, NoRelations))}

\* a call that has not begun; fresh: no live row matches its identity yet
begun(data, link_ok, store) ==
  [ data |-> data, link_ok |-> link_ok, fresh |-> lookup(store, data) = {},
    pc |-> "begin", rec |-> 0, result |-> Err(""), committed |-> FALSE, branch |-> "none" ]

InitRace ==
  \E store \in RaceStores : \E d1 \in RaceData : \E d2 \in RaceData : \E link_ok \in BOOLEAN :
    /\ db = store
    /\ last = [op |-> "race"]
    /\ inflight = << begun(d1, TRUE, store), begun(d2, link_ok, store) >>

\* pool.begin() and the identity lookup of call p: a plain SELECT, which sees
\* the committed rows and locks none
Lookup(p) ==
  /\ inflight[p].pc = "begin"
  /\ \E rec \in Picks(inflight[p].data) :
       /\ inflight' = [inflight EXCEPT ![p].pc = "found", ![p].rec = rec]
       /\ last' = [op |-> "lookup", call |-> p, rec |-> rec]
  /\ UNCHANGED db

\* the statements of call p after the lookup, up to the commit and the
\* symlink: none of them reads the archives table again, so the branch is
\* that of the row the lookup returned, and the rows become visible to the
\* other call at the commit
Commit(p) ==
  /\ inflight[p].pc = "found"
  /\ \E src \in Sources(inflight[p].rec) :
       \E out \in {upsert_archive(inflight[p].data, db, inflight[p].rec, src, 0,
                                  inflight[p].link_ok)} :
         /\ db' = out.db
         /\ inflight' = [inflight EXCEPT ![p].pc = "done", ![p].result = out.result,
                                          ![p].committed = out.committed,
                                          ![p].branch = out.branch]
         /\ last' = [op |-> "commit", call |-> p, result |-> out.result, branch |-> out.branch]

NextRace == \E p \in 1..2 : Lookup(p) \/ Commit(p)

SpecRace == InitRace /\ [][NextRace]_vars

\* a search whose three statements run one by one while writers commit:
\* soft deletes, a versioning, lists that clear and set relations, an insert
\* (path and hash are named as the store at hand names them)
NewPath(d) == IF Len(d.archives) < PageSize THEN "p9" ELSE << "p", 0 >>
NewHash(d, n) == IF Len(d.archives) < PageSize THEN (IF n = 8 THEN "h8" ELSE "h9") ELSE << "h", n >>
SearchWrites(d) ==
  {CallOf(ArchiveData(Some(id), None, None, RequiredOthers, Some("d"), FALSE, NoRelations),
          FALSE, TRUE) : id \in 1..2}
  \cup
  {CallOf(ArchiveData(Some(1), None, Some(NewHash(d, 9)), RequiredOthers, None, FALSE, NoRelations),
          FALSE, TRUE),
   CallOf(ArchiveData(Some(2), None, None, RequiredOthers, None, FALSE,
                      [NoRelations EXCEPT !.artists = Some(<< >>)]), FALSE, TRUE),
   CallOf(ArchiveData(Some(3), None, None, RequiredOthers, None, FALSE,
                      [NoRelations EXCEPT !.artists = Some(<< "A" >>)]), FALSE, TRUE),
   CallOf(ArchiveData(None, Some(NewPath(d)), Some(NewHash(d, 8)), {}, None, FALSE,
                      [NoRelations EXCEPT !.artists = Some(<< "A" >>)]), FALSE, TRUE)}
SteppedStores == {TwoArchives, ThreeArchives, PlainArchives(PageSize + 2)}
SteppedQueries(store) ==
  { SearchQuery(value, blacklist, sort, None, page) :
      value \in IF Len(store.archives) <= MaxPermuted
                THEN {<< >>, << "t" >>, << "artist", ":", "a" >>, << "-", "artist", ":", "b" >>,
                      << "title", ":", "t" >>}
                ELSE {<< >>, << "t" >>},
      blacklist \in IF Len(store.archives) <= MaxPermuted THEN {<< >>, << << "a", ":", "2" >> >>}
                    ELSE {<< >>},
      sort \in {"Relevance", "Random"}, page \in 1..2 }

\* a search that has not run its first statement
called(query) ==
  [ query |-> query, pc |-> "phase1", all_ids |-> << >>, ids |-> << >>, writes |-> 0 ]

InitStepped ==
  \E store \in SteppedStores : \E query \in SteppedQueries(store) :
    /\ db = store
    /\ last = [op |-> "query", query |-> query]
    /\ inflight = << called(query) >>

\* the first fetch_all: the candidates, in the order the store returns them,
\* shuffled for Sorting::Random; a statement that is no SQL ends the call
Phase1 ==
  /\ inflight[1].pc = "phase1"
  /\ IF ~ well_formed(predicates_of(inflight[1].query.value))
     THEN /\ inflight' = [inflight EXCEPT ![1].pc = "done"]
          /\ last' = [ op |-> "search", query |-> inflight[1].query, ok |-> FALSE,
                       all_ids |-> << >>, paginated |-> << >>, items |-> << >>, total |-> 0 ]
     ELSE \E rows \in store_orders(phase1_rows(db, search_parsed(inflight[1].query.value),
                                                predicates_of(inflight[1].query.value),
                                                inflight[1].query.blacklist)) :
            /\ inflight' = [inflight EXCEPT
                              ![1].pc = "phase2",
                              ![1].all_ids = all_ids_of(rows, inflight[1].query.sort,
                                                        inflight[1].query.seed)]
            /\ last' = [op |-> "phase1", query |-> inflight[1].query]
  /\ UNCHANGED db

\* the second fetch_all: the rows of the page that still match, by `ord`
Phase2 ==
  /\ inflight[1].pc = "phase2"
  /\ inflight' = [inflight EXCEPT
                    ![1].pc = "hydrate",
                    ![1].ids = phase2_ids(db, search_parsed(inflight[1].query.value),
                                          predicates_of(inflight[1].query.value),
                                          inflight[1].query.blacklist, inflight[1].all_ids,
                                          paginated_ids(inflight[1].all_ids,
                                                        inflight[1].query.page))]
  /\ last' = [op |-> "phase2", query |-> inflight[1].query]
  /\ UNCHANGED db

\* the third fetch_all and Ok((archives, all_ids.len()))
Hydrate ==
  /\ inflight[1].pc = "hydrate"
  /\ inflight' = [inflight EXCEPT ![1].pc = "done"]
  /\ last' = [ op |-> "search", query |-> inflight[1].query, ok |-> TRUE,
               all_ids |-> inflight[1].all_ids,
               paginated |-> paginated_ids(inflight[1].all_ids, inflight[1].query.page),
               items |-> hydrated(db, inflight[1].ids), total |-> Len(inflight[1].all_ids) ]
  /\ UNCHANGED db

\* a call of upsert_archive that commits between two statements of the search
ConcurrentWrite ==
  /\ inflight[1].pc \in {"phase2", "hydrate"}
  /\ inflight[1].writes < MaxWrites
  /\ \E c \in SearchWrites(db) : \E rec \in Picks(c.data) : \E src \in Sources(rec) :
       \E out \in {upsert_archive(c.data, db, rec, src, 0, c.link_ok)} :
         /\ out.committed
         /\ db' = out.db
         /\ inflight' = [inflight EXCEPT ![1].writes = @ + 1]
         /\ last' = [op |-> "write", branch |-> out.branch, rec |-> out.rec]

NextStepped == Phase1 \/ Phase2 \/ Hydrate \/ ConcurrentWrite

SpecStepped == InitStepped /\ [][NextStepped]_vars

(* ============================== claims ================================= *)
Live(i) == is_none(db.archives[i].deleted_at)
IsUpsert == last.op = "upsert_archive"

\* C1: in every reachable state no two live archives (deleted_at null) carry
\* the same content hash.
C1_OneLiveArchivePerHash ==
  \A i, j \in 1..Len(db.archives) :
    (Live(i) /\ Live(j) /\ db.archives[i].hash = db.archives[j].hash) => i = j

\* a committed call whose identity lookup found a live row with another hash
Versioned ==
  /\ last'.op = "upsert_archive" /\ last'.committed /\ last'.rec /= 0
  /\ is_some(last'.input.hash)
  /\ unwrap(last'.input.hash) /= db.archives[last'.rec].hash

\* C2: a committed re-ingestion with a changed hash returns an id that did
\* not exist and differs from the found id; the row under it is live and
\* carries the new hash; the old row is still there with deleted_at set.
C2_Step ==
  Versioned =>
    \E new \in 1..Len(db'.archives) :
      /\ new \notin 1..Len(db.archives)
      /\ Len(db'.archives) = Len(db.archives) + 1
      /\ new /= last'.rec
      /\ last'.result.ok /\ last'.result.id = new
      /\ is_none(db'.archives[new].deleted_at)
      /\ db'.archives[new].hash = unwrap(last'.input.hash)
      /\ last'.rec \in 1..Len(db'.archives)
      /\ is_some(db'.archives[last'.rec].deleted_at)
      /\ db'.archives[last'.rec].hash = db.archives[last'.rec].hash

C2_VersioningReturnsNewId == [][C2_Step]_vars

\* a committed call whose identity lookup found a live row and whose hash is
\* absent or equal to the row's
UpdatedInPlace ==
  /\ last'.op = "upsert_archive" /\ last'.committed /\ last'.rec /= 0
  /\ \/ is_none(last'.input.hash)
     \/ unwrap(last'.input.hash) = db.archives[last'.rec].hash

\* C4: a committed re-ingestion with an unchanged or absent hash returns the
\* found id, adds no archive row and leaves the found row's hash as it was.
C4_Step ==
  UpdatedInPlace =>
    /\ last'.result.ok /\ last'.result.id = last'.rec
    /\ Len(db'.archives) = Len(db.archives)
    /\ \A i \in 1..Len(db.archives) : db'.archives[i].hash = db.archives[i].hash

C4_UpdateReturnsFoundId == [][C4_Step]_vars

\* C5: a committed first insert (no live row matched, the six required
\* fields present) returns an id that fetch_archive_data finds, with the hash
\* of the input.
C5_FirstInsertRoundTrip ==
  (IsUpsert /\ last.committed /\ last.rec = 0 /\ last.input.missing = {}) =>
    /\ last.result.ok
    /\ is_some(fetch_archive_data(last.result.id, db))
    /\ unwrap(fetch_archive_data(last.result.id, db)).hash = unwrap(last.input.hash)

\* C6: a call whose transaction committed returns the archive id, not an
\* error, also when the symlink request fails.
C6_CommittedCallReturnsId == (IsUpsert /\ last.committed) => last.result.ok

\* C8: the insufficient-data error is returned exactly when the lookup ran,
\* found no live row and one of the six required fields is absent; the call
\* then leaves the store as it was and requests no symlink.
C8_Step ==
  last'.op = "upsert_archive" =>
    /\ (last'.result.error = "insufficient") <=>
         /\ last'.rec = 0 /\ last'.input.missing /= {}
         /\ ~ (last'.result.error = "store" /\ last'.stmts = 1)
    /\ last'.result.error = "insufficient" =>
         db' = db /\ ~ last'.committed /\ is_none(last'.link) /\ last'.log = << >>

C8_InsufficientData == [][C8_Step]_vars

C8_Witness == IsUpsert /\ last.result.error = "insufficient" /\ Len(db.archives) >= 1

\* the relation rows of every kind an archive id holds in a store
HeldBy(d, id) ==
  [ facets |-> [r \in FacetRelations |-> {x.term_id : x \in {y \in d.rels[r] : y.archive_id = id}}],
    tags |-> {<< x.tag_id, x.namespace >> : x \in {y \in d.archive_tags : y.archive_id = id}},
    sources |-> {<< x.name, x.url >> : x \in {y \in d.archive_sources : y.archive_id = id}},
    images |-> {<< x.page_number, x.filename, x.width, x.height >> :
                  x \in {y \in d.archive_images : y.archive_id = id}} ]

\* C3: after a committed re-ingestion with a changed hash the new id holds
\* every facet, tag, source and image relation the old id held before the
\* call, and the old id holds none.
C3_Step ==
  Versioned =>
    LET old == HeldBy(db, last'.rec)
        new == HeldBy(db', Len(db'.archives))
        left == HeldBy(db', last'.rec)
    IN /\ \A r \in FacetRelations : old.facets[r] \subseteq new.facets[r] /\ left.facets[r] = {}
       /\ old.tags \subseteq new.tags /\ left.tags = {}
       /\ old.sources \subseteq new.sources /\ left.sources = {}
       /\ old.images \subseteq new.images /\ left.images = {}

C3_RelationsMoveToNewId == [][C3_Step]_vars

\* C7: a call of upsert_archive in which a statement fails (the lookup, the
\* insert, update or copy, a statement of a synchronizer, the soft delete or
\* the commit) commits nothing: the store is as before the call and the call
\* returns an error.
C7_Step ==
  (last'.op = "upsert_archive" /\ last'.failed) =>
    db' = db /\ ~ last'.committed /\ ~ last'.result.ok

C7_UpsertArchiveAtomic == [][C7_Step]_vars

\* a statement past the archive row's failed, in a store that holds relations
C7_Witness ==
  /\ IsUpsert /\ last.failed /\ last.stmts >= 4
  /\ last.input.rel.artists /= None
  /\ db.archive_sources /= {} /\ db.archive_images /= {}

\* the relation rows of a call's log that were inserted or deleted
RowChanges(log) ==
  SelectSeq(log, LAMBDA e : e.op \in {"INSERT", "DELETE"}
                            /\ e.table \notin TermTables \cup {"archives"})

\* C9: a call that synchronizes one relation list right after a call with the
\* same list for the same archive, both successful, leaves the archive's
\* relation rows as the first call left them and inserts and deletes no row.
C9_Step ==
  ( /\ last.op = "upsert_archive" /\ last'.op = "upsert_archive"
    /\ last.result.ok /\ last'.result.ok
    /\ last.rec /= 0 /\ last'.rec = last.rec
    /\ KindOf(last'.input.rel) /= {} /\ last'.input = last.input ) =>
    /\ HeldBy(db', last'.rec) = HeldBy(db, last'.rec)
    /\ RowChanges(last'.log) = << >>

C9_SecondSyncChangesNothing == [][C9_Step]_vars

\* the slug of a term id
SlugOf(d, table, id) == (CHOOSE t \in d.terms[table] : t.id = id).slug

\* the keys an archive holds in a facet (slug) and in the tags (slug, namespace)
FacetKeys(d, type, id) ==
  {SlugOf(d, TagType_table(type), x.term_id) :
     x \in {y \in d.rels[TagType_relation(type)] : y.archive_id = id}}
TagKeys(d, id) ==
  {<< SlugOf(d, "tags", x.tag_id), x.namespace >> : x \in {y \in d.archive_tags : y.archive_id = id}}

\* the entries of a log for one operation on one table
Logged(log, op, table) == SelectSeq(log, LAMBDA e : e.op = op /\ e.table = table)

\* the diff of one facet: Cur \ Des deleted, Des \ Cur inserted, each once;
\* the rows of Cur in Des kept as they are; Des held afterwards
FacetDiff(type, list) ==
  LET table == TagType_table(type)
      relation == TagType_relation(type)
      id == last'.rec
      Cur == FacetKeys(db, type, id)
      Des == {slugify(list[i]) : i \in 1..Len(list)}
      deleted == Logged(last'.log, "DELETE", relation)
      inserted == Logged(last'.log, "INSERT", relation)
  IN /\ {SlugOf(db, table, deleted[i].id) : i \in 1..Len(deleted)} = Cur \ Des
     /\ Len(deleted) = Cardinality(Cur \ Des)
     /\ {SlugOf(db', table, inserted[i].id) : i \in 1..Len(inserted)} = Des \ Cur
     /\ Len(inserted) = Cardinality(Des \ Cur)
     /\ \A x \in db.rels[relation] :
          (x.archive_id = id /\ SlugOf(db, table, x.term_id) \in Des) => x \in db'.rels[relation]
     /\ FacetKeys(db', type, id) = Des

\* the same for the tags, keyed by (slug, namespace)
TagDiff(list) ==
  LET id == last'.rec
      Cur == TagKeys(db, id)
      Des == {<< slugify(list[i][1]), list[i][2] >> : i \in 1..Len(list)}
      deleted == Logged(last'.log, "DELETE", "archive_tags")
      inserted == Logged(last'.log, "INSERT", "archive_tags")
  IN /\ {<< SlugOf(db, "tags", deleted[i].id), deleted[i].s >> : i \in 1..Len(deleted)} = Cur \ Des
     /\ Len(deleted) = Cardinality(Cur \ Des)
     /\ {<< SlugOf(db', "tags", inserted[i].id), inserted[i].s >> : i \in 1..Len(inserted)}
          = Des \ Cur
     /\ Len(inserted) = Cardinality(Des \ Cur)
     /\ \A x \in db.archive_tags :
          (x.archive_id = id /\ << SlugOf(db, "tags", x.tag_id), x.namespace >> \in Des)
            => x \in db'.archive_tags
     /\ TagKeys(db', id) = Des

\* C10: a synchronization of a facet or of the tags of an archive (reached
\* through an update of a found archive) deletes exactly the relation rows
\* whose key is current and not desired, inserts exactly the keys desired and
\* not current, leaves the rows both current and desired in place, and ends
\* with the desired key set.
C10_Step ==
  (last'.op = "upsert_archive" /\ last'.branch = "update") =>
    /\ is_some(last'.input.rel.artists) => FacetDiff("Artist", unwrap(last'.input.rel.artists))
    /\ is_some(last'.input.rel.circles) => FacetDiff("Circle", unwrap(last'.input.rel.circles))
    /\ is_some(last'.input.rel.tags) => TagDiff(unwrap(last'.input.rel.tags))

C10_SyncAppliesDiff == [][C10_Step]_vars

\* C11: no call removes a row of a term table (artists, circles, magazines,
\* events, publishers, parodies, tags): every term row of the store before a
\* step is a row of the store after it; only relation rows are deleted.
C11_Step == \A t \in TermTables : db.terms[t] \subseteq db'.terms[t]

C11_TermTablesOnlyGrow == [][C11_Step]_vars

\* a successful call deleted a facet or tag relation row and the term tables
\* still hold rows
C11_Witness ==
  /\ IsUpsert /\ last.result.ok
  /\ \E e \in Range(last.log) : e.op = "DELETE" /\ e.table \in FacetRelations \cup {"archive_tags"}
  /\ \E t \in TermTables : db.terms[t] /= {}

IsCompiled == last.op = "compile"

\* a free text of plain words read as alternatives between `|`, each the
\* conjunction of its words
Alternatives(value) == [i \in 1..Len(split(value, "|")) |-> split(split(value, "|")[i], SP)]
GroupedMeaning(value, env) ==
  \E i \in 1..Len(Alternatives(value)) :
    \A j \in 1..Len(Alternatives(value)[i]) : Alternatives(value)[i][j][1] \in env

\* C12: "foo|bar" compiles to "(foo:*)|(bar:*)"; a free text of plain words
\* with `|` compiles to an expression equivalent to the disjunction of its
\* alternatives, each alternative the conjunction of its words (A B|C D to
\* (A&B)|(C&D)); a free text without `|` gets no parenthesis.
C12_AlternativesGrouped ==
  IsCompiled =>
    /\ last.value = << "foo", "|", "bar" >> =>
         last.parsed = << "(", "foo", ":", "*", ")", "|", "(", "bar", ":", "*", ")" >>
    /\ (last.value \in PlainQueries /\ "|" \in Range(last.value)) =>
         \A env \in SUBSET PlainWords : ts_eval(last.parsed, env) = GroupedMeaning(last.value, env)
    /\ "|" \notin Range(last.value) => Range(last.parsed) \cap {"(", ")"} = {}

\* the token rule spelled out: `token:*`, or the token without its `$`; a
\* leading `-` turned into `!`
MarkedToken(t) == IF ends_with(t, "$") THEN SubSeq(t, 1, Len(t) - 1) ELSE t \o << ":", "*" >>
RankedToken(t) == IF starts_with(t, "-") THEN << "!" >> \o Tail(MarkedToken(t)) ELSE MarkedToken(t)
RECURSIVE JoinedByAnd(_)
JoinedByAnd(tokens) ==
  IF Len(tokens) = 1 THEN RankedToken(tokens[1])
  ELSE RankedToken(tokens[1]) \o << "&" >> \o JoinedByAnd(Tail(tokens))

\* C13: when the free text left after the filters (and the characters search
\* strips) holds no `|`, the ranking expression is its tokens in order, joined
\* by `&`, each `token:*` or, ending in `$`, the token without the `$`, a
\* leading `-` turned into `!`; an empty free text gives the empty expression
\* and no ranking clause in phase 1 and phase 2.
C13_TokensJoinedByAnd ==
  (IsCompiled /\ "|" \notin Range(last.clean)) =>
    /\ last.clean /= << >> => last.parsed = JoinedByAnd(split(last.clean, SP))
    /\ last.clean /= << >> => last.ranked = << TRUE, TRUE >>
    /\ last.clean = << >> => last.parsed = << >> /\ last.ranked = << FALSE, FALSE >>
    /\ last.value = << "foo", SP, "bar" >> => last.parsed = << "foo", ":", "*", "&", "bar", ":", "*" >>
    /\ last.value = << "foo", "$" >> => last.parsed = << "foo" >>

\* a free text of two tokens, the first negated, the second exact
C13_Witness ==
  /\ IsCompiled /\ "|" \notin Range(last.clean)
  /\ Len(split(last.clean, SP)) = 2
  /\ last.parsed = << "!", "foo", ":", "*", "&", "bar" >>

\* the predicate a filter stands for: quotes, parentheses removed, `*` as `%`
FilterPredicate(f) ==
  [ facet |-> to_lowercase(f.facet), negated |-> f.negated,
    value |-> remove_chars(replace_char(f.value, "*", << "%" >>), {QUOTE, "(", ")"}) ]
PredicateOf(pred) == [facet |-> pred.tag_type, negated |-> pred.negate, value |-> pred.value]

\* C14: a query made only of filters has an empty ranking expression and one
\* predicate {facet, negated, value} per filter, negated exactly when the
\* filter starts with `-`, the value without its quotes; and in every query
\* the filters removed from the free text are the filters turned into
\* predicates.
C14_FiltersBecomePredicates ==
  IsCompiled =>
    /\ \A f \in Filters :
         last.value = f.text =>
           /\ last.parsed = << >>
           /\ [i \in 1..Len(last.predicates) |-> PredicateOf(last.predicates[i])]
                = << FilterPredicate(f) >>
    /\ \A f, g \in Filters :
         last.value = f.text \o << SP >> \o g.text =>
           /\ last.parsed = << >>
           /\ [i \in 1..Len(last.predicates) |-> PredicateOf(last.predicates[i])]
                = << FilterPredicate(f), FilterPredicate(g) >>
    /\ Len(last.removed) = Len(last.predicates)

IsSearch == last.op = "search"
ItemIds(items) == [i \in 1..Len(items) |-> items[i].id]

\* C15: two searches with sort key random, the same seed and the same
\* candidate set return the ids in the same order, whatever order the store
\* returns the phase-1 rows in.
C15_Step ==
  (last.op = "search" /\ last'.op = "search" /\ last.ok /\ last'.ok
   /\ last'.query = last.query /\ last.query.sort = "Random"
   /\ Range(last'.all_ids) = Range(last.all_ids)) =>
    ItemIds(last'.items) = ItemIds(last.items)

C15_RandomOrderRepeats == [][C15_Step]_vars

\* the ids of L from (p - 1) * 24 up to p * 24, clamped to the length of L
Clamped(L, n) == IF n < Len(L) THEN n ELSE Len(L)
Slice(L, p) == SubSeq(L, Clamped(L, (p - 1) * 24) + 1, Clamped(L, p * 24))
PagesOf(L) == (Len(L) + 23) \div 24
RECURSIVE Concatenated(_, _)
Concatenated(L, p) == IF p = 0 THEN << >> ELSE Concatenated(L, p - 1) \o paginated_ids(L, p)

\* C16: a search with page p returns exactly the ids of the phase-1 list L
\* from (p - 1) * 24 up to p * 24, clamped, in that order; the pages 1 to
\* ceil(|L| / 24) put one after the other give L, every id once; a later page
\* is empty.
C16_PagesPartitionTheList ==
  (IsSearch /\ last.ok) =>
    /\ ItemIds(last.items) = Slice(last.all_ids, last.query.page)
    /\ Concatenated(last.all_ids, PagesOf(last.all_ids)) = last.all_ids
    /\ \A i, j \in 1..Len(last.all_ids) : last.all_ids[i] = last.all_ids[j] => i = j
    /\ last.query.page > PagesOf(last.all_ids) => last.items = << >>

\* the second page of a list of a page and one id
C16_Witness ==
  /\ IsSearch /\ last.ok /\ last.query.page = 2
  /\ Len(last.all_ids) = 25 /\ Len(last.items) = 1

\* the relation table a blacklist namespace stands for, and the id it names
BlacklistTable(ns) ==
  CASE ns = "a" -> "archive_artists"
    [] ns = "c" -> "archive_circles"
    [] ns = "m" -> "archive_magazines"
    [] ns = "e" -> "archive_events"
    [] ns = "ps" -> "archive_publishers"
    [] ns = "p" -> "archive_parodies"
    [] OTHER -> "archive_tags"
BlacklistId(digit) == CASE digit = "1" -> 1 [] digit = "2" -> 2 [] digit = "3" -> 3 [] OTHER -> 0
LinkedTo(id, ns, term) ==
  IF BlacklistTable(ns) = "archive_tags"
  THEN \E r \in db.archive_tags : r.archive_id = id /\ r.tag_id = term
  ELSE [archive_id |-> id, term_id |-> term] \in db.rels[BlacklistTable(ns)]

\* C17: a search whose blacklist holds `ns:<id>` returns no archive with a
\* relation row to that id in the table of ns (a, c, m, e, ps, p, t; any
\* other namespace the tags), whatever the free text, the sort key and the
\* page, and counts no such archive in the total.
C17_BlacklistExcludes ==
  (IsSearch /\ last.ok) =>
    \A i \in 1..Len(last.query.blacklist) :
      \A id \in Range(last.all_ids) \cup Range(ItemIds(last.items)) :
        /\ ~ LinkedTo(id, last.query.blacklist[i][1], BlacklistId(last.query.blacklist[i][3]))
        /\ last.total = Cardinality(Range(last.all_ids))

\* artist 1 is blacklisted, a live archive holds it and another one is found
C17_Witness ==
  /\ IsSearch /\ last.ok /\ last.query.blacklist = << << "a", ":", "1" >> >>
  /\ last.query.value = << >>
  /\ \E id \in 1..Len(db.archives) : Live(id) /\ LinkedTo(id, "a", 1)
  /\ last.total = 1 /\ Len(last.items) = 1

\* C18: a search returns and counts no archive whose deleted_at is set, for
\* any query, sort key, seed and page.
C18_DeletedNeverFound ==
  (IsSearch /\ last.ok) =>
    /\ \A id \in Range(last.all_ids) \cup Range(ItemIds(last.items)) : Live(id)
    /\ last.total <= Cardinality({id \in 1..Len(db.archives) : Live(id)})

\* the soft-deleted archive 1 holds artist A, the query asks for it and finds
\* the live archive that holds it too
C18_Witness ==
  /\ IsSearch /\ last.ok /\ last.query.value = << "artist", ":", "a" >>
  /\ last.query.blacklist = << >>
  /\ ~ Live(1) /\ taxonomy_exists(db, 1, "Artist", "slug", << "a" >>)
  /\ last.total = 1

\* C20: a query that is one negated filter finds exactly the live archives
\* that the same filter without the `-` does not find, also when the value
\* holds `|` or `&`.
C20_NegationIsComplement ==
  ( /\ IsSearch /\ last.ok /\ last.query.blacklist = << >>
    /\ starts_with(last.query.value, "-")
    /\ Len(predicates_of(last.query.value)) = 1
    /\ search_parsed(last.query.value) = << >> ) =>
    Range(last.all_ids) =
      {id \in 1..Len(db.archives) : Live(id)}
        \ phase1_rows(db, << >>, predicates_of(Tail(last.query.value)), << >>)

RaceOver == Len(inflight) = 2 /\ \A p \in 1..2 : inflight[p].pc = "done"
LiveWithHash(hash) == {i \in 1..Len(db.archives) : Live(i) /\ db.archives[i].hash = hash}

\* C19: two calls of upsert_archive with the same hash and path, neither
\* present before, do not both commit an insert in any interleaving;
\* afterwards at most one live archive holds the hash, and the call that lost
\* has failed or has acted on the row of the other.
C19_RacingUpsertsSerialized ==
  (RaceOver /\ inflight[1].fresh /\ inflight[2].fresh) =>
    /\ ~ \A p \in 1..2 : inflight[p].committed /\ inflight[p].branch = "insert"
    /\ Cardinality(LiveWithHash(unwrap(inflight[1].data.hash))) <= 1
    /\ \E p \in 1..2 : ~ inflight[p].result.ok \/ inflight[p].branch = "update"

\* the relation and the term table of a facet, and the namespaces of the
\* names that stand for tags
FacetRelation(f) ==
  CASE f = "artist" -> "archive_artists" [] f = "circle" -> "archive_circles"
    [] f = "magazine" -> "archive_magazines" [] f = "event" -> "archive_events"
    [] f = "publisher" -> "archive_publishers" [] f = "parody" -> "archive_parodies"
FacetTable(f) ==
  CASE f = "artist" -> "artists" [] f = "circle" -> "circles"
    [] f = "magazine" -> "magazines" [] f = "event" -> "events"
    [] f = "publisher" -> "publishers" [] f = "parody" -> "parodies"
FacetNamespaces(f) ==
  CASE f = "tag" -> {"male", "female", "misc"} [] f = "male" -> {"male"}
    [] f = "female" -> {"female"} [] OTHER -> {"misc"}
TermMatches(t, v) == ilike(text_of(t.name), v) \/ ilike(text_of(t.slug), v)
Kept(id, f, v) ==
  IF f \in {"tag", "male", "female", "misc", "other"}
  THEN \E r \in db.archive_tags :
         /\ r.archive_id = id /\ r.namespace \in FacetNamespaces(f)
         /\ \E t \in db.terms["tags"] : t.id = r.tag_id /\ TermMatches(t, v)
  ELSE \E r \in db.rels[FacetRelation(f)] :
         /\ r.archive_id = id
         /\ \E t \in db.terms[FacetTable(f)] : t.id = r.term_id /\ TermMatches(t, v)
\* the query is `facet:v`, v without `|` and `&`, and no blacklist
OneFilter(value) ==
  /\ Len(value) >= 3 /\ value[2] = ":"
  /\ value[1] \in {"artist", "circle", "magazine", "event", "publisher", "parody",
                   "tag", "male", "female", "misc", "other"}
  /\ \A i \in 3..Len(value) : value[i] \notin {"|", "&", SP}

\* C21: `facet:v` keeps exactly the archives with a relation to a term of
\* that facet whose name or slug matches v without regard to case, for artist,
\* circle, magazine, event, publisher and parody; `tag:v` looks at the tags of
\* any namespace, `male:v` and `female:v` at theirs, `misc:v` and `other:v`
\* at misc.
C21_FilterChecksItsFacet ==
  (IsSearch /\ last.query.blacklist = << >> /\ OneFilter(last.query.value)) =>
    /\ last.ok
    /\ Range(last.all_ids) =
         {id \in 1..Len(db.archives) :
            Live(id) /\ Kept(id, last.query.value[1],
                             replace_char(SubSeq(last.query.value, 3, Len(last.query.value)),
                                          "*", << "%" >>))}

\* the facets of the grammar for which add_tag_matches has no arm
Unchecked(value) == Len(value) = 3 /\ value[2] = ":" /\ value[1] \in {"title", "pages"}

\* C22: no query text makes search fail; a filter whose facet has no
\* existence check adds no condition, so the search returns what it returns
\* without the filter.
C22_NoRejectPath ==
  IsSearch =>
    /\ last.ok
    /\ (Unchecked(last.query.value) /\ last.query.blacklist = << >>) =>
         Range(last.all_ids) = {id \in 1..Len(db.archives) : Live(id)}

Metadata(row) ==
  [ slug |-> row.slug, title |-> row.title, description |-> row.description, path |-> row.path,
    pages |-> row.pages, size |-> row.size, thumbnail |-> row.thumbnail,
    language |-> row.language, released_at |-> row.released_at,
    has_metadata |-> row.has_metadata ]

\* C23: in versioning the new row's slug, title, description, path, pages,
\* size, thumbnail, language, released_at and has_metadata are those of the
\* live archive the identity lookup found, also in stores that hold
\* soft-deleted rows; only the hash differs.
C23_Step ==
  Versioned =>
    /\ Len(db'.archives) = Len(db.archives) + 1
    /\ Metadata(db'.archives[Len(db'.archives)]) = Metadata(db.archives[last'.rec])
    /\ db'.archives[Len(db'.archives)].hash = unwrap(last'.input.hash)

C23_VersioningCopiesFoundRow == [][C23_Step]_vars

\* C24: an in-place update sets description, language and deleted_at to the
\* input values, null when absent; it overwrites title, slug, path, pages,
\* size, thumbnail, released_at and has_metadata when present and leaves them
\* when absent; it never changes the hash and the id.
C24_Step ==
  UpdatedInPlace =>
    /\ Len(db'.archives) = Len(db.archives)
    /\ \A f \in {"description", "language", "deleted_at"} :
         db'.archives[last'.rec][f] = last'.input.data[f]
    /\ \A f \in {"title", "slug", "path", "pages", "size", "thumbnail", "has_metadata"} :
         db'.archives[last'.rec][f] =
           IF last'.input.data[f] /= << >> THEN last'.input.data[f][1]
           ELSE db.archives[last'.rec][f]
    /\ db'.archives[last'.rec].released_at =
         IF last'.input.data.released_at /= << >> THEN last'.input.data.released_at
         ELSE db.archives[last'.rec].released_at
    /\ db'.archives[last'.rec].hash = db.archives[last'.rec].hash
    /\ db'.archives[last'.rec].id = db.archives[last'.rec].id

C24_UpdateWritesFields == [][C24_Step]_vars

\* an update without the optional fields of a row that held them
C24_Witness ==
  /\ IsUpsert /\ last.committed /\ last.branch = "update"
  /\ last.input.data.description = << >> /\ last.input.data.slug = << >>
  /\ last.input.data.title = << >>
  /\ db.archives[last.rec].description = << >> /\ db.archives[last.rec].slug = "u"
  /\ db.archives[last.rec].released_at /= << >>

\* C25: the symlink is requested only after the transaction of the same call
\* has committed, never for a call whose transaction failed or was rolled
\* back; it is requested, with the archive id the call returns as target, for
\* every successful insert, every versioning and every update with a path.
C25_LinkAfterCommit ==
  IsUpsert =>
    /\ last.link /= << >> => (last.committed /\ ~ last.failed)
    /\ (last.committed /\ (last.branch \in {"insert", "version"}
                           \/ (last.branch = "update" /\ last.input.data.path /= << >>))) =>
         /\ last.link /= << >>
         /\ last.result.ok => last.link[1].target = last.result.id
         /\ last.link[1].target \in 1..Len(db.archives)
         /\ last.branch /= "version" => last.link[1].path = last.input.data.path[1]

\* a versioning that asked for the link with the new id 2 as target
C25_Witness ==
  /\ IsUpsert /\ last.committed /\ last.branch = "version" /\ last.result.ok
  /\ last.link /= << >> /\ last.link[1].target = 2

\* the archive a committed call has written the relations of
Target == IF last'.branch = "version" THEN Len(db'.archives) ELSE last'.result.id
FacetKind(r) ==
  CASE r = "archive_artists" -> "artists" [] r = "archive_circles" -> "circles"
    [] r = "archive_magazines" -> "magazines" [] r = "archive_events" -> "events"
    [] r = "archive_publishers" -> "publishers" [] r = "archive_parodies" -> "parodies"
Before(id) ==
  IF id \in 1..Len(db.archives) THEN HeldBy(db, id)
  ELSE [ facets |-> [r \in FacetRelations |-> {}], tags |-> {}, sources |-> {}, images |-> {} ]

\* C29: a relation list absent from the input of upsert_archive leaves the
\* archive's rows of that kind as they were; a facet, tag or image list that
\* is present and empty removes all of them; the relation rows of the other
\* archives are never changed.
C29_Step ==
  (last'.op = "upsert_archive" /\ last'.committed) =>
    /\ \A id \in 1..Len(db'.archives) : id /= Target => HeldBy(db', id) = Before(id)
    /\ \A r \in FacetRelations :
         /\ last'.input.rel[FacetKind(r)] = None =>
              HeldBy(db', Target).facets[r] = Before(Target).facets[r]
         /\ last'.input.rel[FacetKind(r)] = Some(<< >>) => HeldBy(db', Target).facets[r] = {}
    /\ last'.input.rel.tags = None => HeldBy(db', Target).tags = Before(Target).tags
    /\ last'.input.rel.tags = Some(<< >>) => HeldBy(db', Target).tags = {}
    /\ last'.input.rel.sources = None => HeldBy(db', Target).sources = Before(Target).sources
    /\ last'.input.rel.images = None => HeldBy(db', Target).images = Before(Target).images
    /\ last'.input.rel.images = Some(<< >>) => HeldBy(db', Target).images = {}

C29_AbsentListsLeaveRows == [][C29_Step]_vars

\* an update without lists of an archive that holds rows of every kind, in a
\* store with another archive that holds rows
C29_Witness ==
  /\ IsUpsert /\ last.committed /\ last.branch = "update"
  /\ last.input.rel = NoRelations
  /\ HeldBy(db, last.rec).facets["archive_artists"] /= {} /\ HeldBy(db, last.rec).tags /= {}
  /\ HeldBy(db, last.rec).sources /= {} /\ HeldBy(db, last.rec).images /= {}
  /\ \E id \in 1..Len(db.archives) : id /= last.rec /\ HeldBy(db, id).images /= {}

\* an update with empty lists has removed the rows of an archive
C29_WitnessCleared ==
  /\ IsUpsert /\ last.committed /\ last.branch = "update"
  /\ last.input.rel.artists = Some(<< >>) /\ last.input.rel.images = Some(<< >>)
  /\ \E e \in Range(last.log) : e.op = "DELETE" /\ e.table = "archive_images"
  /\ HeldBy(db, last.rec).sources /= {}

ImagesOf(d, id) == {x \in d.archive_images : x.archive_id = id}

\* C27: after the image synchronizer has run for an archive with the input
\* list I, the page numbers the archive holds are those of I, every stored
\* row has the filename, width and height of an input row of its page, and
\* no two rows of the archive have the same page number.
C27_Step ==
  (last'.op = "upsert_archive" /\ last'.committed /\ last'.input.rel.images /= None) =>
    /\ {x.page_number : x \in ImagesOf(db', Target)} =
         {last'.input.rel.images[1][i].page_number : i \in 1..Len(last'.input.rel.images[1])}
    /\ \A x \in ImagesOf(db', Target) :
         \E i \in 1..Len(last'.input.rel.images[1]) :
           /\ last'.input.rel.images[1][i].page_number = x.page_number
           /\ last'.input.rel.images[1][i].filename = x.filename
           /\ last'.input.rel.images[1][i].width = x.width
           /\ last'.input.rel.images[1][i].height = x.height
    /\ \A x, y \in ImagesOf(db', Target) : x.page_number = y.page_number => x = y

C27_ImagesFollowInput == [][C27_Step]_vars

\* the row of page 1 was overwritten with another filename and a width, and
\* the row of page 2 is gone
C27_Witness ==
  /\ IsUpsert /\ last.committed /\ last.branch = "update"
  /\ last.input.rel.images = Some(<< Image("f2", 1, Some(10)) >>)
  /\ \E e \in Range(last.log) : e.op = "UPDATE" /\ e.table = "archive_images"
  /\ \E e \in Range(last.log) : e.op = "DELETE" /\ e.table = "archive_images"

\* a facet list that names a slug twice, a tag list that names a slug twice
\* in one namespace
RepeatsSlug(list) ==
  list /= None /\ \E i, j \in 1..Len(list[1]) : i /= j /\ slugify(list[1][i]) = slugify(list[1][j])
RepeatsTag(list) ==
  list /= None /\ \E i, j \in 1..Len(list[1]) :
                    /\ i /= j /\ slugify(list[1][i][1]) = slugify(list[1][j][1])
                    /\ list[1][i][2] = list[1][j][2]

\* C28: a facet or tag synchronization whose input holds the same name twice,
\* or two names with the same slug (for tags in the same namespace), succeeds
\* and leaves one relation row for the archive and the term.
C28_Step ==
  ( /\ last'.op = "upsert_archive" /\ last'.rec /= 0 /\ ~ Versioned
    /\ \/ RepeatsSlug(last'.input.rel.artists) \/ RepeatsSlug(last'.input.rel.circles)
       \/ RepeatsTag(last'.input.rel.tags) ) =>
    /\ last'.result.ok
    /\ \A k \in {"artists", "circles"} :
         last'.input.rel[k] /= None =>
           FacetKeys(db', IF k = "artists" THEN "Artist" ELSE "Circle", last'.rec) =
             {slugify(last'.input.rel[k][1][i]) : i \in 1..Len(last'.input.rel[k][1])}
    /\ last'.input.rel.tags /= None =>
         TagKeys(db', last'.rec) =
           {<< slugify(last'.input.rel.tags[1][i][1]), last'.input.rel.tags[1][i][2] >> :
              i \in 1..Len(last'.input.rel.tags[1])}

C28_RepeatedTermsOneRow == [][C28_Step]_vars

\* a is b without some of its entries
RECURSIVE IsSubsequence(_, _)
IsSubsequence(a, b) ==
  IF a = << >> THEN TRUE
  ELSE IF b = << >> THEN FALSE
  ELSE IF Head(a) = Head(b) THEN IsSubsequence(Tail(a), Tail(b))
  ELSE IsSubsequence(a, Tail(b))
SearchDone == Len(inflight) = 1 /\ inflight[1].pc = "done" /\ last.op = "search" /\ last.ok

\* C26: with writes that commit between the statements of a search, the
\* items are still a subsequence of the page slice of the phase-1 list, in
\* its order: at most 24, no id twice, none outside the slice; the total is
\* the number of phase-1 candidates, also when fewer items are returned.
C26_ItemsWithinPhase1Slice ==
  SearchDone =>
    /\ IsSubsequence(ItemIds(last.items), Slice(inflight[1].all_ids, last.query.page))
    /\ Len(last.items) <= 24
    /\ \A i, j \in 1..Len(last.items) : last.items[i].id = last.items[j].id => i = j
    /\ last.total = Len(inflight[1].all_ids)

\* writes have committed during the search, an archive of the slice is gone
\* from the items and another is still there
C26_Witness ==
  /\ SearchDone /\ inflight[1].writes >= 1
  /\ Len(last.items) >= 1
  /\ Len(last.items) < Len(Slice(inflight[1].all_ids, last.query.page))
  /\ last.total > Len(last.items)

====
